---- MODULE Spec2Model ----
(***************************************************************************)
(* Vastram laundry backend: accounts, catalog, carts and orders kept in a  *)
(* document store, and the HTTP handlers that read and write them.         *)
(*                                                                         *)
(* Every handler is a sequence of steps, one per store operation (each     *)
(* `await` of the source): a step performs the store operation and the     *)
(* synchronous code that follows it up to the next store operation.        *)
(* A document `save()` of an already stored document writes the modified   *)
(* paths only (a pushed array element is appended to the stored array, an  *)
(* assigned field is written when its value differs from the loaded one);  *)
(* a `save()` of a new document inserts it.  Any store operation may       *)
(* throw, which every handler answers with a 500.                          *)
(***************************************************************************)
EXTENDS Integers, Sequences, FiniteSets, TLC

VARIABLES
  now,        \* the clock read by `new Date()`
  services,   \* catalog collection: service id -> document
  users,      \* account collection: user id -> document
  carts,      \* cart collection: user id -> the user's cart document
  orders,     \* order collection, in insertion order; the index is the _id
  reqs        \* the requests in flight: slot -> handler position and locals

vars == <<now, services, users, carts, orders, reqs>>

----------------------------------------------------------------------------
\* Bounds of the model.

\* at most this many orders are inserted
MaxOrders == 2
\* at most this many tracking entries per order
MaxTracking == 3
\* at most this many lines in a cart
MaxCartLines == 2

\* request slots (concurrently processed requests)
Slots == {"r1", "r2"}

----------------------------------------------------------------------------
\* Identities.

AdminId == "admin"
SeedCustomers == {"rajesh", "priya", "amit"}
\* an account created through registration
NewCustomers == {"new1"}
UserIds == {AdminId} \cup SeedCustomers \cup NewCustomers

ServiceIds == {"s1", "s2"}
\* a well-formed id that names no catalog document
UnknownService == "s0"

MembershipTiers == {"bronze", "silver", "gold", "platinum"}

OrderStatuses ==
  {"pending", "confirmed", "picked-up", "in-progress", "ready",
   "out-for-delivery", "delivered", "cancelled"}

----------------------------------------------------------------------------
\* Program constants.

MinQuantity == 1
MaxQuantity == 50
SilverThreshold == 10000
GoldThreshold == 25000
PlatinumThreshold == 50000
MaxProcessingDays == 2
MinRating == 1
MaxRating == 5

----------------------------------------------------------------------------
\* Pure functions.

\* userSchema.methods.updateMembershipTier: the tier for an amount spent
updateMembershipTierExclusive(totalSpent) ==
  IF totalSpent > PlatinumThreshold THEN "platinum"
  ELSE IF totalSpent > GoldThreshold THEN "gold"
  ELSE IF totalSpent > SilverThreshold THEN "silver"
  ELSE "bronze"

updateMembershipTier(totalSpent) ==
  IF totalSpent >= PlatinumThreshold THEN "platinum"
  ELSE IF totalSpent >= GoldThreshold THEN "gold"
  ELSE IF totalSpent >= SilverThreshold THEN "silver"
  ELSE "bronze"

\* Math.round(subtotal * 0.18) for a non-negative whole subtotal: the product
\* is 18*subtotal/100, rounded to the nearest integer, halves upwards.
ComputeTaxFloor(subtotal) == (18 * subtotal) \div 100

ComputeTax(subtotal) == (18 * subtotal + 50) \div 100

\* items.reduce((total, item) => total + item.quantity, 0)
RECURSIVE SumQuantity(_)
SumQuantity(items) ==
  IF items = <<>> THEN 0 ELSE Head(items).quantity + SumQuantity(Tail(items))

\* items.reduce((total, item) => total + (item.price * item.quantity), 0)
RECURSIVE SumPrice(_)
SumPrice(items) ==
  IF items = <<>> THEN 0
  ELSE Head(items).price * Head(items).quantity + SumPrice(Tail(items))

----------------------------------------------------------------------------
\* Documents.

NoDate == -1
NoRating == 0
NoText == ""

\* a user id with no stored document
NoUser ==
  [exists |-> FALSE, role |-> "customer", totalOrders |-> 0, totalSpent |-> 0,
   membershipTier |-> "bronze"]

\* new User({name, email, password, phone, address}): the schema defaults
NewUser ==
  [exists |-> TRUE, role |-> "customer", totalOrders |-> 0, totalSpent |-> 0,
   membershipTier |-> "bronze"]

\* the users array of the seeding script
SeedUsers ==
  [u \in UserIds |->
     CASE u = "admin"  -> [NewUser EXCEPT !.role = "admin", !.membershipTier = "platinum"]
       [] u = "rajesh" -> [NewUser EXCEPT !.membershipTier = "gold",
                                          !.totalOrders = 15, !.totalSpent = 12500]
       [] u = "priya"  -> [NewUser EXCEPT !.membershipTier = "silver",
                                          !.totalOrders = 8, !.totalSpent = 6800]
       [] u = "amit"   -> [NewUser EXCEPT !.membershipTier = "bronze",
                                          !.totalOrders = 3, !.totalSpent = 2100]
       [] OTHER        -> NoUser]

NoService ==
  [exists |-> FALSE, name |-> "", price |-> 0, isActive |-> FALSE,
   category |-> "", isPopular |-> FALSE]

\* two entries of the services array of the seeding script
SeedServices ==
  [s \in ServiceIds |->
     CASE s = "s1" -> [exists |-> TRUE, name |-> "Regular Shirt", price |-> 49,
                       isActive |-> TRUE, category |-> "shirts",
                       isPopular |-> TRUE]
       [] s = "s2" -> [exists |-> TRUE, name |-> "Blanket Double", price |-> 400,
                       isActive |-> TRUE, category |-> "home-essentials",
                       isPopular |-> FALSE]]

NoCart ==
  [exists |-> FALSE, items |-> <<>>, totalItems |-> 0, totalPrice |-> 0,
   lastUpdated |-> 0]

\* new Order({...}) as order.save() inserts it: status defaults to pending,
\* trackingUpdates to [], and the pre-save hook estimates the delivery
NewOrder(customer, orderItems, subtotal, tax, total, pickupDate) ==
  [customer |-> customer, items |-> orderItems, subtotal |-> subtotal,
   tax |-> tax, total |-> total, pickupDate |-> pickupDate,
   estimatedDelivery |-> pickupDate + MaxProcessingDays,
   actualDelivery |-> NoDate, status |-> "pending", trackingUpdates |-> <<>>,
   rating |-> NoRating, review |-> NoText]

\* a slot with no request in it
IdleReq ==
  [op |-> "idle", pc |-> "idle", user |-> "none", code |-> 0, err |-> "",
   \* request inputs
   items |-> <<>>, pickupDate |-> 0, target |-> 0, status |-> "",
   message |-> "", rating |-> NoRating, review |-> NoText,
   service |-> "", quantity |-> 0,
   \* the query of a catalog listing
   category |-> "", minPrice |-> -1, maxPrice |-> -1, popular |-> FALSE,
   search |-> "",
   \* what a read answers with: the services listed and their count, the
   \* count per category, the service names an order's lines resolve to
   listed |-> {}, count |-> 0, categories |-> <<>>, resolved |-> <<>>,
   \* handler locals
   i |-> 0, orderItems |-> <<>>, subtotal |-> 0, tax |-> 0, total |-> 0,
   order |-> 0, price |-> 0,
   \* the document the handler loaded
   doc |-> NoUser, cdoc |-> NoCart, populated |-> FALSE,
   lstatus |-> "", lrating |-> NoRating, lreview |-> NoText, stamp |-> NoDate,
   \* the caller's account and cart and the orders when the request arrived
   preUser |-> NoUser, preCart |-> NoCart, preOrders |-> 0]

TypeOK ==
  /\ now = 0
  /\ DOMAIN services = ServiceIds
  /\ DOMAIN users = UserIds
  /\ DOMAIN carts = UserIds
  /\ Len(orders) <= MaxOrders
  /\ DOMAIN reqs = Slots

Init ==
  /\ now = 0
  /\ services = [s \in ServiceIds |-> NoService]
  /\ users = [u \in UserIds |-> NoUser]
  /\ carts = [u \in UserIds |-> NoCart]
  /\ orders = <<>>
  /\ reqs = [r \in Slots |-> IdleReq]

----------------------------------------------------------------------------
\* Helpers of the handlers.

Idle(r) == reqs[r].pc = "idle"

\* authenticateToken: the bearer token names an existing account
Authenticated(u) == users[u].exists

\* requireAdmin
IsAdmin(u) == users[u].role = "admin"

\* the request arrives: the slot holds the handler's name, the caller and
\* what the caller's documents were
Arrive(r, op, u) ==
  [IdleReq EXCEPT !.op = op, !.user = u, !.preUser = users[u],
                  !.preCart = carts[u], !.preOrders = Len(orders)]

\* res.status(code).json(...): the handler is over
Answer(req, code, err) ==
  [req EXCEPT !.pc = "respond", !.code = code, !.err = err]

\* a path of a loaded document as save() writes it: only when modified
Delta(stored, loaded, assigned) ==
  IF assigned # loaded THEN assigned ELSE stored

\* Service.findOne({ _id: id, isActive: true })
FindServiceAnyState(id) ==
  IF id \in ServiceIds /\ services[id].exists
  THEN services[id] ELSE NoService

FindActiveService(id) ==
  IF id \in ServiceIds /\ services[id].exists /\ services[id].isActive
  THEN services[id] ELSE NoService

----------------------------------------------------------------------------
\* Seeding, registration, membership.

\* scripts/seedData: both collections are emptied and the samples inserted
\* (run on the empty store, before any request)
SeedDatabase ==
  /\ \A u \in UserIds : ~users[u].exists
  /\ \A r \in Slots : Idle(r)
  /\ orders = <<>>
  /\ users' = SeedUsers
  /\ services' = SeedServices
  /\ UNCHANGED <<now, carts, orders, reqs>>

\* POST /api/auth/register
Register(r, u) ==
  /\ Idle(r)
  /\ u \in NewCustomers
  /\ IF users[u].exists
     THEN /\ reqs' = [reqs EXCEPT ![r] = Answer(Arrive(r, "register", u), 400, "exists")]
          /\ UNCHANGED users
     ELSE /\ users' = [users EXCEPT ![u] = NewUser]
          /\ reqs' = [reqs EXCEPT ![r] = Answer(Arrive(r, "register", u), 201, "")]
  /\ UNCHANGED <<now, services, carts, orders>>

\* PUT /api/users/:id/membership
UpdateMembership(r, a, u, membershipTier) ==
  /\ Idle(r)
  /\ Authenticated(a) /\ IsAdmin(a)
  /\ membershipTier \in MembershipTiers
  /\ IF users[u].exists
     THEN /\ users' = [users EXCEPT ![u].membershipTier = membershipTier]
          /\ reqs' = [reqs EXCEPT ![r] = Answer(Arrive(r, "membership", a), 200, "")]
     ELSE /\ reqs' = [reqs EXCEPT ![r] = Answer(Arrive(r, "membership", a), 404, "user")]
          /\ UNCHANGED users
  /\ UNCHANGED <<now, services, carts, orders>>

\* the response is sent and the slot is free again
Respond(r) ==
  /\ reqs[r].pc = "respond"
  /\ reqs' = [reqs EXCEPT ![r] = IdleReq]
  /\ UNCHANGED <<now, services, users, carts, orders>>

\* the pending store operation of the request throws: catch -> 500
StoreFails(r) ==
  /\ reqs[r].pc \notin {"idle", "respond"}
  /\ reqs' = [reqs EXCEPT ![r] = Answer(reqs[r], 500, "store")]
  /\ UNCHANGED <<now, services, users, carts, orders>>


----------------------------------------------------------------------------
\* POST /api/orders (checkout).

\* the express-validator chain of the route; formOk stands for the address,
\* date-format and time-format checks
CheckoutValid(items, formOk) ==
  /\ formOk
  /\ Len(items) >= 1
  /\ \A k \in 1..Len(items) :
       items[k].quantity >= MinQuantity /\ items[k].quantity <= MaxQuantity

\* if (pickupDateTime <= new Date()), pickupDateTime being
\* new Date(pickupDate); pickupTime takes no part in it
PickupBeforeNow(pickupDateTime) == pickupDateTime < now

PickupNotInFuture(pickupDateTime) == pickupDateTime <= now

\* the checkouts in flight that have not inserted their order yet
InsertsAhead ==
  {q \in Slots : reqs[q].op = "checkout" /\ reqs[q].pc \in {"lookup", "insert"}}

\* the request arrives, is validated and its pickup date compared with now
CheckoutBegin(r, u, items, pickupDate, formOk) ==
  /\ Idle(r)
  /\ Authenticated(u)
  /\ Len(orders) + Cardinality(InsertsAhead) < MaxOrders
  /\ LET req == [Arrive(r, "checkout", u) EXCEPT !.items = items,
                                                 !.pickupDate = pickupDate]
     IN reqs' = [reqs EXCEPT ![r] =
          IF ~CheckoutValid(items, formOk) THEN Answer(req, 400, "validation")
          ELSE IF PickupNotInFuture(pickupDate) THEN Answer(req, 400, "pickup")
          ELSE [req EXCEPT !.pc = "lookup", !.i = 1]]
  /\ UNCHANGED <<now, services, users, carts, orders>>

\* one iteration of `for (const item of items)`: Service.findOne, then the
\* line is priced; after the last line tax and total are computed
CheckoutLookupLastLine(r) ==
  /\ reqs[r].op = "checkout" /\ reqs[r].pc = "lookup"
  /\ LET req == reqs[r]
         item == req.items[req.i]
         service == FindActiveService(item.service)
         itemSubtotal == service.price * item.quantity
         subtotal == itemSubtotal
         tax == ComputeTax(subtotal)
         line == [service |-> item.service, serviceName |-> service.name,
                  quantity |-> item.quantity, price |-> service.price,
                  subtotal |-> itemSubtotal]
     IN reqs' = [reqs EXCEPT ![r] =
          IF ~service.exists
          THEN Answer(req, 400, "service")
          ELSE IF req.i < Len(req.items)
          THEN [req EXCEPT !.orderItems = Append(@, line),
                           !.subtotal = subtotal, !.i = @ + 1]
          ELSE [req EXCEPT !.orderItems = Append(@, line),
                           !.subtotal = subtotal, !.tax = tax,
                           !.total = subtotal + tax, !.pc = "insert"]]
  /\ UNCHANGED <<now, services, users, carts, orders>>

CheckoutLookup(r) ==
  /\ reqs[r].op = "checkout" /\ reqs[r].pc = "lookup"
  /\ LET req == reqs[r]
         item == req.items[req.i]
         service == FindActiveService(item.service)
         itemSubtotal == service.price * item.quantity
         subtotal == req.subtotal + itemSubtotal
         tax == ComputeTax(subtotal)
         line == [service |-> item.service, serviceName |-> service.name,
                  quantity |-> item.quantity, price |-> service.price,
                  subtotal |-> itemSubtotal]
     IN reqs' = [reqs EXCEPT ![r] =
          IF ~service.exists
          THEN Answer(req, 400, "service")
          ELSE IF req.i < Len(req.items)
          THEN [req EXCEPT !.orderItems = Append(@, line),
                           !.subtotal = subtotal, !.i = @ + 1]
          ELSE [req EXCEPT !.orderItems = Append(@, line),
                           !.subtotal = subtotal, !.tax = tax,
                           !.total = subtotal + tax, !.pc = "insert"]]
  /\ UNCHANGED <<now, services, users, carts, orders>>

\* await order.save(): the order is inserted
CheckoutInsertFromCart(r) ==
  /\ reqs[r].op = "checkout" /\ reqs[r].pc = "insert"
  /\ LET req == reqs[r]
         cart == carts[req.user]
         cartLines == [k \in 1..Len(cart.items) |->
                         [service |-> cart.items[k].service,
                          serviceName |-> services[cart.items[k].service].name,
                          quantity |-> cart.items[k].quantity,
                          price |-> cart.items[k].price,
                          subtotal |-> cart.items[k].price * cart.items[k].quantity]]
     IN /\ orders' = Append(orders,
                            NewOrder(req.user,
                                     IF cart.items # <<>> THEN cartLines ELSE req.orderItems,
                                     req.subtotal, req.tax, req.total, req.pickupDate))
        /\ reqs' = [reqs EXCEPT ![r] = [req EXCEPT !.order = Len(orders) + 1,
                                                   !.lstatus = "pending",
                                                   !.pc = "track"]]
  /\ UNCHANGED <<now, services, users, carts>>

CheckoutInsert(r) ==
  /\ reqs[r].op = "checkout" /\ reqs[r].pc = "insert"
  /\ LET req == reqs[r]
     IN /\ orders' = Append(orders, NewOrder(req.user, req.orderItems, req.subtotal,
                                             req.tax, req.total, req.pickupDate))
        /\ reqs' = [reqs EXCEPT ![r] = [req EXCEPT !.order = Len(orders) + 1,
                                                   !.lstatus = "pending",
                                                   !.pc = "track"]]
  /\ UNCHANGED <<now, services, users, carts>>

\* orderSchema.methods.addTrackingUpdate on the stored order id, for a
\* document loaded with status lstatus: the entry is pushed, the status set
AddTrackingUpdateOverwrite(id, lstatus, status, message) ==
  [orders EXCEPT
     ![id].trackingUpdates =
        <<[status |-> status, message |-> message, timestamp |-> now]>>,
     ![id].status = Delta(@, lstatus, status)]

AddTrackingUpdate(id, lstatus, status, message) ==
  [orders EXCEPT
     ![id].trackingUpdates =
        Append(@, [status |-> status, message |-> message, timestamp |-> now]),
     ![id].status = Delta(@, lstatus, status)]

PlacedMessage == "Order placed successfully. Waiting for confirmation."

\* await order.addTrackingUpdate('pending', ...)
CheckoutTrack(r) ==
  /\ reqs[r].op = "checkout" /\ reqs[r].pc = "track"
  /\ orders' = AddTrackingUpdate(reqs[r].order, reqs[r].lstatus, "pending", PlacedMessage)
  /\ reqs' = [reqs EXCEPT ![r].pc = "loadUser"]
  /\ UNCHANGED <<now, services, users, carts>>

\* const user = await User.findById(req.user._id)
CheckoutLoadUser(r) ==
  /\ reqs[r].op = "checkout" /\ reqs[r].pc = "loadUser"
  /\ reqs' = [reqs EXCEPT ![r] =
       IF users[reqs[r].user].exists
       THEN [reqs[r] EXCEPT !.doc = users[reqs[r].user], !.pc = "saveUser"]
       ELSE Answer(reqs[r], 500, "user")]
  /\ UNCHANGED <<now, services, users, carts, orders>>

\* user.totalOrders += 1; user.totalSpent += total;
\* user.updateMembershipTier(); await user.save()
SaveUserStats(stored, loaded, total) ==
  [stored EXCEPT
     !.totalOrders = Delta(@, loaded.totalOrders, loaded.totalOrders + 1),
     !.totalSpent = Delta(@, loaded.totalSpent, loaded.totalSpent + total),
     !.membershipTier = Delta(@, loaded.membershipTier,
                              updateMembershipTier(loaded.totalSpent + total))]

CheckoutSaveUser(r) ==
  /\ reqs[r].op = "checkout" /\ reqs[r].pc = "saveUser"
  /\ users' = [users EXCEPT ![reqs[r].user] =
                 SaveUserStats(@, reqs[r].doc, reqs[r].total)]
  /\ reqs' = [reqs EXCEPT ![r].pc = "findCart"]
  /\ UNCHANGED <<now, services, carts, orders>>

\* const cart = await Cart.findOne({ user }); if (cart) ...
CheckoutFindCart(r) ==
  /\ reqs[r].op = "checkout" /\ reqs[r].pc = "findCart"
  /\ reqs' = [reqs EXCEPT ![r] =
       IF carts[reqs[r].user].exists
       THEN [reqs[r] EXCEPT !.cdoc = carts[reqs[r].user], !.pc = "clearCart"]
       ELSE [reqs[r] EXCEPT !.pc = "populate"]]
  /\ UNCHANGED <<now, services, users, carts, orders>>

\* cartSchema.pre('save') and the write of cart.save() for a loaded cart whose
\* items were changed to newItems: the hook recomputes the totals from the
\* items and stamps lastUpdated, and the modified paths are written.
\* (The version key that makes a save of a stale items array fail is left
\* out: no specification below interleaves two writers of one cart.)
SaveCartStaleTotals(stored, loaded, newItems) ==
  [stored EXCEPT
     !.items = Delta(@, loaded.items, newItems),
     !.lastUpdated = Delta(@, loaded.lastUpdated, now)]

SaveCart(stored, loaded, newItems) ==
  [stored EXCEPT
     !.items = Delta(@, loaded.items, newItems),
     !.totalItems = Delta(@, loaded.totalItems, SumQuantity(newItems)),
     !.totalPrice = Delta(@, loaded.totalPrice, SumPrice(newItems)),
     !.lastUpdated = Delta(@, loaded.lastUpdated, now)]

\* await cart.clearCart()
CheckoutSkipClearCart(r) ==
  /\ reqs[r].op = "checkout" /\ reqs[r].pc = "clearCart"
  /\ reqs' = [reqs EXCEPT ![r].pc = "populate"]
  /\ UNCHANGED <<now, services, users, carts, orders>>

CheckoutClearCart(r) ==
  /\ reqs[r].op = "checkout" /\ reqs[r].pc = "clearCart"
  /\ carts' = [carts EXCEPT ![reqs[r].user] = SaveCart(@, reqs[r].cdoc, <<>>)]
  /\ reqs' = [reqs EXCEPT ![r].pc = "populate"]
  /\ UNCHANGED <<now, services, users, orders>>

\* await order.populate('customer', ...); res.status(201)
CheckoutPopulate(r) ==
  /\ reqs[r].op = "checkout" /\ reqs[r].pc = "populate"
  /\ reqs' = [reqs EXCEPT ![r] = Answer(reqs[r], 201, "")]
  /\ UNCHANGED <<now, services, users, carts, orders>>


----------------------------------------------------------------------------
\* The cart routes.

\* cartItemSchema: the validators save() runs on the lines of the cart
CartItemsValid(items) ==
  \A k \in 1..Len(items) :
    /\ items[k].quantity >= MinQuantity
    /\ items[k].quantity <= MaxQuantity
    /\ items[k].price >= 0

\* GET /api/cart arrives
CartGetBegin(r, u) ==
  /\ Idle(r)
  /\ Authenticated(u)
  /\ reqs' = [reqs EXCEPT ![r] = [Arrive(r, "getCart", u) EXCEPT !.pc = "getCart"]]
  /\ UNCHANGED <<now, services, users, carts, orders>>

\* POST /api/cart/items arrives and is validated
CartAddBegin(r, u, serviceId, quantity) ==
  /\ Idle(r)
  /\ Authenticated(u)
  /\ Len(carts[u].items) < MaxCartLines
  /\ LET req == [Arrive(r, "addItem", u) EXCEPT !.service = serviceId,
                                                !.quantity = quantity]
     IN reqs' = [reqs EXCEPT ![r] =
          IF quantity >= MinQuantity /\ quantity <= MaxQuantity
          THEN [req EXCEPT !.pc = "findService"]
          ELSE Answer(req, 400, "validation")]
  /\ UNCHANGED <<now, services, users, carts, orders>>

\* const service = await Service.findOne({ _id: serviceId, isActive: true })
CartAddFindService(r) ==
  /\ reqs[r].op = "addItem" /\ reqs[r].pc = "findService"
  /\ LET service == FindActiveService(reqs[r].service)
     IN reqs' = [reqs EXCEPT ![r] =
          IF service.exists
          THEN [reqs[r] EXCEPT !.price = service.price, !.pc = "getCart"]
          ELSE Answer(reqs[r], 404, "service")]
  /\ UNCHANGED <<now, services, users, carts, orders>>

\* where a handler goes once it holds the cart
AfterCart(op) == IF op = "addItem" THEN "addItem" ELSE "populate"

\* Cart.getOrCreateCart, the lookup:
\* this.findOne({ user: userId }).populate('items.service')
GetOrCreateCartFind(r) ==
  /\ reqs[r].op \in {"getCart", "addItem"} /\ reqs[r].pc = "getCart"
  /\ reqs' = [reqs EXCEPT ![r] =
       IF carts[reqs[r].user].exists
       THEN [reqs[r] EXCEPT !.cdoc = carts[reqs[r].user], !.populated = TRUE,
                      !.pc = AfterCart(reqs[r].op)]
       ELSE [reqs[r] EXCEPT !.pc = "createCart"]]
  /\ UNCHANGED <<now, services, users, carts, orders>>

\* Cart.getOrCreateCart, the creation: new this({ user, items: [] }).save();
\* the unique index on user rejects a second cart of the same user
GetOrCreateCartSave(r) ==
  /\ reqs[r].op \in {"getCart", "addItem"} /\ reqs[r].pc = "createCart"
  /\ LET u == reqs[r].user
         cart == [NoCart EXCEPT !.exists = TRUE, !.lastUpdated = now]
     IN IF carts[u].exists
        THEN /\ reqs' = [reqs EXCEPT ![r] = Answer(reqs[r], 500, "duplicate")]
             /\ UNCHANGED carts
        ELSE /\ carts' = [carts EXCEPT ![u] = cart]
             /\ reqs' = [reqs EXCEPT ![r] =
                  [reqs[r] EXCEPT !.cdoc = cart, !.populated = FALSE,
                            !.pc = AfterCart(reqs[r].op)]]
  /\ UNCHANGED <<now, services, users, orders>>

\* item.service.toString() === serviceId.toString() for a line of a loaded
\* cart: a populated line holds the service document, whose toString() is
\* not its id
SameServiceById(item, serviceId, populated) ==
  item.service = serviceId

SameService(item, serviceId, populated) ==
  ~populated /\ item.service = serviceId

\* items.find(item => item.service.toString() === serviceId.toString()):
\* the index of the first such line, 0 when there is none
FindItem(items, serviceId, populated) ==
  IF \E k \in 1..Len(items) : SameService(items[k], serviceId, populated)
  THEN CHOOSE k \in 1..Len(items) :
         /\ SameService(items[k], serviceId, populated)
         /\ \A j \in 1..(k - 1) : ~SameService(items[j], serviceId, populated)
  ELSE 0

\* cartSchema.methods.addItem: the items after the merge or the push
AddItemItems(items, serviceId, quantity, price, populated) ==
  LET k == FindItem(items, serviceId, populated)
  IN IF k # 0
     THEN [items EXCEPT ![k].quantity = @ + quantity]
     ELSE Append(items, [service |-> serviceId, quantity |-> quantity,
                         price |-> price])

\* items.filter(item => item.service.toString() !== serviceId.toString())
RECURSIVE FilterItems(_, _, _)
FilterItems(items, serviceId, populated) ==
  IF items = <<>> THEN <<>>
  ELSE IF SameService(Head(items), serviceId, populated)
       THEN FilterItems(Tail(items), serviceId, populated)
       ELSE <<Head(items)>> \o FilterItems(Tail(items), serviceId, populated)

\* cartSchema.methods.updateItemQuantity: the items after the update
UpdateItemQuantityUnguarded(items, serviceId, quantity, populated) ==
  LET k == FindItem(items, serviceId, populated)
  IN IF k = 0 THEN items
     ELSE [items EXCEPT ![k].quantity = quantity]

UpdateItemQuantityItems(items, serviceId, quantity, populated) ==
  LET k == FindItem(items, serviceId, populated)
  IN IF k = 0 THEN items
     ELSE IF quantity <= 0 THEN FilterItems(items, serviceId, populated)
     ELSE [items EXCEPT ![k].quantity = quantity]

\* a populated line whose service document is gone holds null, and
\* null.toString() throws
PopulateHoles(items, populated) ==
  populated /\ \E k \in 1..Len(items) :
                 ~(items[k].service \in ServiceIds /\ services[items[k].service].exists)

\* the cart method ends in this.save(): validation, then the write
CartSave(r, newItems) ==
  IF CartItemsValid(newItems)
  THEN /\ carts' = [carts EXCEPT ![reqs[r].user] = SaveCart(@, reqs[r].cdoc, newItems)]
       /\ reqs' = [reqs EXCEPT ![r] =
            IF reqs[r].op = "clearCart" THEN Answer(reqs[r], 200, "")
            ELSE [reqs[r] EXCEPT !.pc = "populate"]]
  ELSE /\ reqs' = [reqs EXCEPT ![r] = Answer(reqs[r], 500, "validation")]
       /\ UNCHANGED carts

\* await cart.addItem(serviceId, quantity, service.price)
CartAddItem(r) ==
  /\ reqs[r].op = "addItem" /\ reqs[r].pc = "addItem"
  /\ LET req == reqs[r]
     IN IF PopulateHoles(req.cdoc.items, req.populated)
        THEN /\ reqs' = [reqs EXCEPT ![r] = Answer(reqs[r], 500, "null")]
             /\ UNCHANGED carts
        ELSE CartSave(r, AddItemItems(req.cdoc.items, req.service, req.quantity,
                                      req.price, req.populated))
  /\ UNCHANGED <<now, services, users, orders>>

\* PUT /api/cart/items/:serviceId arrives and is validated
CartUpdateBegin(r, u, serviceId, quantity) ==
  /\ Idle(r)
  /\ Authenticated(u)
  /\ LET req == [Arrive(r, "updateItem", u) EXCEPT !.service = serviceId,
                                                   !.quantity = quantity]
     IN reqs' = [reqs EXCEPT ![r] =
          IF quantity >= 0 /\ quantity <= MaxQuantity
          THEN [req EXCEPT !.pc = "findCart"]
          ELSE Answer(req, 400, "validation")]
  /\ UNCHANGED <<now, services, users, carts, orders>>

\* DELETE /api/cart/items/:serviceId arrives
CartRemoveBegin(r, u, serviceId) ==
  /\ Idle(r)
  /\ Authenticated(u)
  /\ reqs' = [reqs EXCEPT ![r] =
       [Arrive(r, "removeItem", u) EXCEPT !.service = serviceId, !.pc = "findCart"]]
  /\ UNCHANGED <<now, services, users, carts, orders>>

\* DELETE /api/cart arrives
CartClearBegin(r, u) ==
  /\ Idle(r)
  /\ Authenticated(u)
  /\ reqs' = [reqs EXCEPT ![r] = [Arrive(r, "clearCart", u) EXCEPT !.pc = "findCart"]]
  /\ UNCHANGED <<now, services, users, carts, orders>>

\* const cart = await Cart.findOne({ user }); if (!cart) 404
CartFind(r) ==
  /\ reqs[r].op \in {"updateItem", "removeItem", "clearCart"}
  /\ reqs[r].pc = "findCart"
  /\ reqs' = [reqs EXCEPT ![r] =
       IF carts[reqs[r].user].exists
       THEN [reqs[r] EXCEPT !.cdoc = carts[reqs[r].user], !.populated = FALSE, !.pc = "save"]
       ELSE Answer(reqs[r], 404, "cart")]
  /\ UNCHANGED <<now, services, users, carts, orders>>

\* await cart.updateItemQuantity(serviceId, quantity)
CartUpdateItem(r) ==
  /\ reqs[r].op = "updateItem" /\ reqs[r].pc = "save"
  /\ CartSave(r, UpdateItemQuantityItems(reqs[r].cdoc.items, reqs[r].service,
                                         reqs[r].quantity, reqs[r].populated))
  /\ UNCHANGED <<now, services, users, orders>>

\* await cart.removeItem(serviceId)
CartRemoveItem(r) ==
  /\ reqs[r].op = "removeItem" /\ reqs[r].pc = "save"
  /\ CartSave(r, FilterItems(reqs[r].cdoc.items, reqs[r].service, reqs[r].populated))
  /\ UNCHANGED <<now, services, users, orders>>

\* await cart.clearCart()
CartClear(r) ==
  /\ reqs[r].op = "clearCart" /\ reqs[r].pc = "save"
  /\ CartSave(r, <<>>)
  /\ UNCHANGED <<now, services, users, orders>>

\* await cart.populate('items.service', ...); res.json(...)
CartPopulate(r) ==
  /\ reqs[r].op \in {"getCart", "addItem", "updateItem", "removeItem"}
  /\ reqs[r].pc = "populate"
  /\ reqs' = [reqs EXCEPT ![r] = Answer(reqs[r], 200, "")]
  /\ UNCHANGED <<now, services, users, carts, orders>>


----------------------------------------------------------------------------
\* The catalog routes of the administrator.

\* absent fields of a request body
NoPrice == -1

\* PUT /api/services/:id with a body of price and/or name:
\* Service.findByIdAndUpdate(id, req.body)
ServiceUpdateRepricesOrders(r, a, s, price, name) ==
  /\ Idle(r)
  /\ Authenticated(a) /\ IsAdmin(a)
  /\ price = NoPrice \/ price >= 0
  /\ IF s \in ServiceIds /\ services[s].exists
     THEN /\ services' = [services EXCEPT
                ![s].price = IF price = NoPrice THEN @ ELSE price,
                ![s].name = IF name = NoText THEN @ ELSE name]
          /\ orders' = [id \in 1..Len(orders) |->
                [orders[id] EXCEPT !.items =
                   [k \in 1..Len(orders[id].items) |->
                      IF orders[id].items[k].service = s
                      THEN [orders[id].items[k] EXCEPT
                              !.serviceName = IF name = NoText THEN @ ELSE name,
                              !.price = IF price = NoPrice THEN @ ELSE price]
                      ELSE orders[id].items[k]]]]
          /\ reqs' = [reqs EXCEPT ![r] = Answer(Arrive(r, "serviceUpdate", a), 200, "")]
     ELSE /\ reqs' = [reqs EXCEPT ![r] = Answer(Arrive(r, "serviceUpdate", a), 404, "service")]
          /\ UNCHANGED <<services, orders>>
  /\ UNCHANGED <<now, users, carts>>

ServiceUpdate(r, a, s, price, name) ==
  /\ Idle(r)
  /\ Authenticated(a) /\ IsAdmin(a)
  /\ price = NoPrice \/ price >= 0
  /\ IF s \in ServiceIds /\ services[s].exists
     THEN /\ services' = [services EXCEPT
                ![s].price = IF price = NoPrice THEN @ ELSE price,
                ![s].name = IF name = NoText THEN @ ELSE name]
          /\ reqs' = [reqs EXCEPT ![r] = Answer(Arrive(r, "serviceUpdate", a), 200, "")]
     ELSE /\ reqs' = [reqs EXCEPT ![r] = Answer(Arrive(r, "serviceUpdate", a), 404, "service")]
          /\ UNCHANGED services
  /\ UNCHANGED <<now, users, carts, orders>>

\* DELETE /api/services/:id: Service.findByIdAndUpdate(id, { isActive: false })
ServiceDelete(r, a, s) ==
  /\ Idle(r)
  /\ Authenticated(a) /\ IsAdmin(a)
  /\ IF s \in ServiceIds /\ services[s].exists
     THEN /\ services' = [services EXCEPT ![s].isActive = FALSE]
          /\ reqs' = [reqs EXCEPT ![r] = Answer(Arrive(r, "serviceDelete", a), 200, "")]
     ELSE /\ reqs' = [reqs EXCEPT ![r] = Answer(Arrive(r, "serviceDelete", a), 404, "service")]
          /\ UNCHANGED services
  /\ UNCHANGED <<now, users, carts, orders>>

\* the categories of the seeded services
Categories == {"shirts", "home-essentials"}

\* the $text index over name, description and tags, by the words of the
\* names the model has
TextMatches(service, term) ==
  term \in (CASE service.name = "Regular Shirt" -> {"regular", "shirt"}
             [] service.name = "Formal Shirt" -> {"formal", "shirt"}
             [] service.name = "Blanket Double" -> {"blanket", "double"}
             [] OTHER -> {})

\* the query of GET /api/services: { isActive: true } with the filters the
\* request gives, and, with a search term, { ...query, $text }
ListQuerySearchOnly(service, category, minPrice, maxPrice, popular, search) ==
  /\ service.exists
  /\ IF search # NoText THEN TextMatches(service, search)
     ELSE /\ service.isActive
          /\ category = NoText \/ service.category = category
          /\ minPrice = NoPrice \/ service.price >= minPrice
          /\ maxPrice = NoPrice \/ service.price <= maxPrice
          /\ popular => service.isPopular

ListQuery(service, category, minPrice, maxPrice, popular, search) ==
  /\ service.exists
  /\ service.isActive
  /\ category = NoText \/ service.category = category
  /\ minPrice = NoPrice \/ service.price >= minPrice
  /\ maxPrice = NoPrice \/ service.price <= maxPrice
  /\ popular => service.isPopular
  /\ search = NoText \/ TextMatches(service, search)

\* GET /api/services arrives (public)
ServiceListBegin(r, category, minPrice, maxPrice, popular, search) ==
  /\ Idle(r)
  /\ reqs' = [reqs EXCEPT ![r] =
       [IdleReq EXCEPT !.op = "listServices", !.pc = "find",
                       !.category = category, !.minPrice = minPrice,
                       !.maxPrice = maxPrice, !.popular = popular,
                       !.search = search]]
  /\ UNCHANGED <<now, services, users, carts, orders>>

\* services = await Service.find(query)
ServiceListFind(r) ==
  /\ reqs[r].op = "listServices" /\ reqs[r].pc = "find"
  /\ LET req == reqs[r]
     IN reqs' = [reqs EXCEPT ![r] =
          [req EXCEPT !.listed = {s \in ServiceIds :
                                   ListQuery(services[s], req.category, req.minPrice,
                                             req.maxPrice, req.popular, req.search)},
                      !.pc = "count"]]
  /\ UNCHANGED <<now, services, users, carts, orders>>

\* total = await Service.countDocuments(query); res.json(...)
ServiceListCount(r) ==
  /\ reqs[r].op = "listServices" /\ reqs[r].pc = "count"
  /\ LET req == reqs[r]
     IN reqs' = [reqs EXCEPT ![r] =
          Answer([req EXCEPT !.count =
                    Cardinality({s \in ServiceIds :
                                   ListQuery(services[s], req.category, req.minPrice,
                                             req.maxPrice, req.popular, req.search)})],
                 200, "")]
  /\ UNCHANGED <<now, services, users, carts, orders>>

\* GET /api/services/categories (public):
\* Service.aggregate([{ $match: { isActive: true } }, { $group: ... }])
ServiceCategories(r) ==
  /\ Idle(r)
  /\ LET groups == {c \in Categories :
                     \E s \in ServiceIds : /\ services[s].exists /\ services[s].isActive
                                           /\ services[s].category = c}
     IN reqs' = [reqs EXCEPT ![r] =
          Answer([IdleReq EXCEPT
                    !.op = "categories",
                    !.categories =
                       [c \in groups |->
                          Cardinality({s \in ServiceIds :
                                         /\ services[s].exists /\ services[s].isActive
                                         /\ services[s].category = c})]],
                 200, "")]
  /\ UNCHANGED <<now, services, users, carts, orders>>

\* GET /api/services/:id (public): Service.findOne({ _id, isActive: true })
ServiceGet(r, s) ==
  /\ Idle(r)
  /\ LET req == [IdleReq EXCEPT !.op = "getService", !.service = s]
     IN reqs' = [reqs EXCEPT ![r] =
          IF FindActiveService(s).exists
          THEN Answer([req EXCEPT !.listed = {s}], 200, "")
          ELSE Answer(req, 404, "service")]
  /\ UNCHANGED <<now, services, users, carts, orders>>

----------------------------------------------------------------------------
\* PUT /api/orders/:id/status (administrator).

\* the statusMessages table and the fallback of the route
StatusMessage(status) ==
  CASE status = "confirmed" -> "Order confirmed. Preparing for pickup."
    [] status = "picked-up" -> "Items picked up successfully."
    [] status = "in-progress" -> "Your items are being processed at Vastram facility."
    [] status = "ready" -> "Your order is ready for delivery."
    [] status = "out-for-delivery" -> "Your order is out for delivery."
    [] status = "delivered" -> "Order delivered successfully. Thank you for choosing Vastram!"
    [] status = "cancelled" -> "Order has been cancelled."
    [] OTHER -> "Order status updated to " \o status

\* message || statusMessages[status] || `Order status updated to ${status}`
TrackingMessage(status, message) ==
  IF message # NoText THEN message ELSE StatusMessage(status)

\* an order id that names a stored order
OrderExists(id) == id \in 1..Len(orders)

\* the bound on the tracking history of the order a request is about
TrackingRoom(id) ==
  OrderExists(id) => Len(orders[id].trackingUpdates) < MaxTracking

\* the request arrives and is validated
StatusBegin(r, a, id, status, message) ==
  /\ Idle(r)
  /\ Authenticated(a) /\ IsAdmin(a)
  /\ TrackingRoom(id)
  /\ LET req == [Arrive(r, "status", a) EXCEPT !.target = id, !.status = status,
                                               !.message = message]
     IN reqs' = [reqs EXCEPT ![r] =
          IF status \in OrderStatuses THEN [req EXCEPT !.pc = "find"]
          ELSE Answer(req, 400, "validation")]
  /\ UNCHANGED <<now, services, users, carts, orders>>

\* requireAdmin turns a caller who is not an administrator away
StatusForbidden(r, u, id, status) ==
  /\ Idle(r)
  /\ Authenticated(u) /\ ~IsAdmin(u)
  /\ reqs' = [reqs EXCEPT ![r] =
       Answer([Arrive(r, "status", u) EXCEPT !.target = id, !.status = status],
              403, "admin")]
  /\ UNCHANGED <<now, services, users, carts, orders>>

\* const order = await Order.findById(req.params.id)
StatusFindForwardOnly(r) ==
  /\ reqs[r].op = "status" /\ reqs[r].pc = "find"
  /\ reqs' = [reqs EXCEPT ![r] =
       IF ~OrderExists(reqs[r].target) THEN Answer(reqs[r], 404, "order")
       ELSE IF orders[reqs[r].target].status \in {"delivered", "cancelled"}
       THEN Answer(reqs[r], 400, "stage")
       ELSE [reqs[r] EXCEPT !.order = reqs[r].target,
                            !.lstatus = orders[reqs[r].target].status,
                            !.pc = "track"]]
  /\ UNCHANGED <<now, services, users, carts, orders>>

StatusFind(r) ==
  /\ reqs[r].op = "status" /\ reqs[r].pc = "find"
  /\ reqs' = [reqs EXCEPT ![r] =
       IF OrderExists(reqs[r].target)
       THEN [reqs[r] EXCEPT !.order = reqs[r].target, !.lstatus = orders[reqs[r].target].status,
                      !.pc = "track"]
       ELSE Answer(reqs[r], 404, "order")]
  /\ UNCHANGED <<now, services, users, carts, orders>>

\* await order.addTrackingUpdate(status, trackingMessage); a delivered order
\* then gets order.actualDelivery = new Date()
StatusTrack(r) ==
  /\ reqs[r].op = "status" /\ reqs[r].pc = "track"
  /\ LET req == reqs[r]
     IN /\ orders' = AddTrackingUpdate(req.order, req.lstatus, req.status,
                                       TrackingMessage(req.status, req.message))
        /\ reqs' = [reqs EXCEPT ![r] =
             IF req.status = "delivered"
             THEN [req EXCEPT !.stamp = now, !.pc = "stamp"]
             ELSE [req EXCEPT !.pc = "populate"]]
  /\ UNCHANGED <<now, services, users, carts>>

\* await order.save() with actualDelivery assigned
StatusStamp(r) ==
  /\ reqs[r].op = "status" /\ reqs[r].pc = "stamp"
  /\ orders' = [orders EXCEPT ![reqs[r].order].actualDelivery = reqs[r].stamp]
  /\ reqs' = [reqs EXCEPT ![r].pc = "populate"]
  /\ UNCHANGED <<now, services, users, carts>>

\* await order.populate('customer', ...); res.json(...)
StatusPopulate(r) ==
  /\ reqs[r].op = "status" /\ reqs[r].pc = "populate"
  /\ reqs' = [reqs EXCEPT ![r] = Answer(reqs[r], 200, "")]
  /\ UNCHANGED <<now, services, users, carts, orders>>

----------------------------------------------------------------------------
\* DELETE /api/orders/:id (cancel).

\* the request arrives
CancelBegin(r, u, id) ==
  /\ Idle(r)
  /\ Authenticated(u)
  /\ TrackingRoom(id)
  /\ reqs' = [reqs EXCEPT ![r] =
       [Arrive(r, "cancel", u) EXCEPT !.target = id, !.pc = "find"]]
  /\ UNCHANGED <<now, services, users, carts, orders>>

\* the query of the cancel and read routes: any order for an administrator,
\* the caller's own orders otherwise
OwnOrderAnyCaller(u, id) == OrderExists(id)

OwnOrder(u, id) ==
  OrderExists(id) /\ (users[u].role # "admin" => orders[id].customer = u)

\* ['pending', 'confirmed'].includes(order.status)
CancellableWide(status) == status \in {"pending", "confirmed", "picked-up"}

CancellableAlways(status) == TRUE

Cancellable(status) == status \in {"pending", "confirmed"}

\* const order = await Order.findOne(query), then the status check
CancelFind(r) ==
  /\ reqs[r].op = "cancel" /\ reqs[r].pc = "find"
  /\ reqs' = [reqs EXCEPT ![r] =
       IF ~OwnOrder(reqs[r].user, reqs[r].target) THEN Answer(reqs[r], 404, "order")
       ELSE IF ~Cancellable(orders[reqs[r].target].status) THEN Answer(reqs[r], 400, "stage")
       ELSE [reqs[r] EXCEPT !.order = reqs[r].target, !.lstatus = orders[reqs[r].target].status,
                      !.pc = "track"]]
  /\ UNCHANGED <<now, services, users, carts, orders>>

CancelMessage == "Order cancelled by customer request."

\* await order.addTrackingUpdate('cancelled', ...); res.json(...)
CancelTrackRefunds(r) ==
  /\ reqs[r].op = "cancel" /\ reqs[r].pc = "track"
  /\ orders' = AddTrackingUpdate(reqs[r].order, reqs[r].lstatus, "cancelled", CancelMessage)
  /\ users' = [users EXCEPT
       ![orders[reqs[r].order].customer] =
          [@ EXCEPT !.totalOrders = @ - 1,
                    !.totalSpent = @ - orders[reqs[r].order].total,
                    !.membershipTier =
                       updateMembershipTier(users[orders[reqs[r].order].customer].totalSpent
                                              - orders[reqs[r].order].total)]]
  /\ reqs' = [reqs EXCEPT ![r] = Answer(reqs[r], 200, "")]
  /\ UNCHANGED <<now, services, carts>>

CancelTrack(r) ==
  /\ reqs[r].op = "cancel" /\ reqs[r].pc = "track"
  /\ orders' = AddTrackingUpdate(reqs[r].order, reqs[r].lstatus, "cancelled", CancelMessage)
  /\ reqs' = [reqs EXCEPT ![r] = Answer(reqs[r], 200, "")]
  /\ UNCHANGED <<now, services, users, carts>>

----------------------------------------------------------------------------
\* GET /api/orders/:id.

\* populate('items.service', 'name category description'): the name of the
\* service a line refers to, as the catalog has it now
PopulateService(line) ==
  IF line.service \in ServiceIds /\ services[line.service].exists
  THEN services[line.service].name ELSE NoText

\* Order.findOne(query).populate('customer', ...).populate('items.service', ...)
OrderGet(r, u, id) ==
  /\ Idle(r)
  /\ Authenticated(u)
  /\ LET req == [Arrive(r, "getOrder", u) EXCEPT !.target = id]
     IN reqs' = [reqs EXCEPT ![r] =
          IF OwnOrder(u, id)
          THEN Answer([req EXCEPT
                         !.order = id,
                         !.resolved = [k \in 1..Len(orders[id].items) |->
                                         PopulateService(orders[id].items[k])]],
                      200, "")
          ELSE Answer(req, 404, "order")]
  /\ UNCHANGED <<now, services, users, carts, orders>>

----------------------------------------------------------------------------
\* GET /api/orders.

\* the query of the listing: the caller's orders unless the caller is an
\* administrator, of the status asked for if one is
OrderListQuery(u, id, status) ==
  /\ OwnOrder(u, id)
  /\ status = NoText \/ orders[id].status = status

\* the request arrives and its query parameters are validated
OrderListBegin(r, u, status) ==
  /\ Idle(r)
  /\ Authenticated(u)
  /\ LET req == [Arrive(r, "listOrders", u) EXCEPT !.status = status]
     IN reqs' = [reqs EXCEPT ![r] =
          IF status = NoText \/ status \in OrderStatuses
          THEN [req EXCEPT !.pc = "find"]
          ELSE Answer(req, 400, "validation")]
  /\ UNCHANGED <<now, services, users, carts, orders>>

\* const orders = await Order.find(query).populate(...)
OrderListFind(r) ==
  /\ reqs[r].op = "listOrders" /\ reqs[r].pc = "find"
  /\ reqs' = [reqs EXCEPT ![r] =
       [reqs[r] EXCEPT !.listed = {id \in 1..Len(orders) :
                                    OrderListQuery(reqs[r].user, id, reqs[r].status)},
                       !.pc = "count"]]
  /\ UNCHANGED <<now, services, users, carts, orders>>

\* const total = await Order.countDocuments(query); res.json(...)
OrderListCount(r) ==
  /\ reqs[r].op = "listOrders" /\ reqs[r].pc = "count"
  /\ reqs' = [reqs EXCEPT ![r] =
       Answer([reqs[r] EXCEPT !.count =
                 Cardinality({id \in 1..Len(orders) :
                                OrderListQuery(reqs[r].user, id, reqs[r].status)})],
              200, "")]
  /\ UNCHANGED <<now, services, users, carts, orders>>

----------------------------------------------------------------------------
\* POST /api/orders/:id/review.

\* the request arrives and is validated
ReviewBegin(r, u, id, rating, review) ==
  /\ Idle(r)
  /\ Authenticated(u)
  /\ LET req == [Arrive(r, "review", u) EXCEPT !.target = id, !.rating = rating,
                                               !.review = review]
     IN reqs' = [reqs EXCEPT ![r] =
          IF rating >= MinRating /\ rating <= MaxRating
          THEN [req EXCEPT !.pc = "find"]
          ELSE Answer(req, 400, "validation")]
  /\ UNCHANGED <<now, services, users, carts, orders>>

\* Order.findOne({ _id, customer: req.user._id, status: 'delivered' })
ReviewableAnyStatus(u, id) ==
  OrderExists(id) /\ orders[id].customer = u

Reviewable(u, id) ==
  OrderExists(id) /\ orders[id].customer = u /\ orders[id].status = "delivered"

\* if (order.rating): a number is truthy unless it is 0
AlreadyRated(rating) == rating # NoRating

\* the lookup and the two eligibility checks
ReviewFind(r) ==
  /\ reqs[r].op = "review" /\ reqs[r].pc = "find"
  /\ reqs' = [reqs EXCEPT ![r] =
       IF ~Reviewable(reqs[r].user, reqs[r].target) THEN Answer(reqs[r], 404, "order")
       ELSE IF AlreadyRated(orders[reqs[r].target].rating) THEN Answer(reqs[r], 400, "reviewed")
       ELSE [reqs[r] EXCEPT !.order = reqs[r].target, !.lrating = orders[reqs[r].target].rating,
                      !.lreview = orders[reqs[r].target].review, !.pc = "save"]]
  /\ UNCHANGED <<now, services, users, carts, orders>>

\* order.rating = rating; order.review = review; await order.save()
ReviewSave(r) ==
  /\ reqs[r].op = "review" /\ reqs[r].pc = "save"
  /\ orders' = [orders EXCEPT
        ![reqs[r].order].rating = Delta(@, reqs[r].lrating, reqs[r].rating),
        ![reqs[r].order].review = Delta(@, reqs[r].lreview, reqs[r].review)]
  /\ reqs' = [reqs EXCEPT ![r] = Answer(reqs[r], 200, "")]
  /\ UNCHANGED <<now, services, users, carts>>


----------------------------------------------------------------------------
\* Specifications.  The sequential ones process one request at a time, in
\* slot S1; the racing ones interleave the steps of two requests.

S1 == "r1"

Line(s, q) == [service |-> s, quantity |-> q]

\* the item lists of the checkout requests: one line, a service listed
\* twice, two services, no line, quantities out of range, an unknown service
CheckoutItemLists ==
  {<<Line("s1", 25)>>, <<Line("s2", 50)>>, <<Line("s1", 2), Line("s1", 2)>>,
   <<Line("s1", 2), Line("s2", 1)>>,
   <<>>, <<Line("s1", 0)>>, <<Line("s2", 51)>>, <<Line(UnknownService, 2)>>,
   <<Line("s1", 25), Line(UnknownService, 1)>>}

\* the checkout requests, as items, pickup date and form validity: every
\* item list with a valid form and a pickup date ahead, one list with every
\* pickup date and form, and an invalid list with a pickup date behind
CheckoutRequests ==
  {<<items, now + 1, TRUE>> : items \in CheckoutItemLists}
    \cup {<<<<Line("s1", 25)>>, d, formOk>> :
            d \in {now - 1, now, now + 1}, formOk \in BOOLEAN}
    \cup {<<<<>>, now - 1, TRUE>>}

\* the accounts that place orders
Buyers == {"amit"}

\* the steps of a checkout in slot r
CheckoutStep(r) ==
  \/ CheckoutLookup(r)
  \/ CheckoutInsert(r)
  \/ CheckoutTrack(r)
  \/ CheckoutLoadUser(r)
  \/ CheckoutSaveUser(r)
  \/ CheckoutFindCart(r)
  \/ CheckoutClearCart(r)
  \/ CheckoutPopulate(r)

\* the steps of POST /api/cart/items in slot r
CartAddStep(r) ==
  \/ CartAddFindService(r)
  \/ GetOrCreateCartFind(r)
  \/ GetOrCreateCartSave(r)
  \/ CartAddItem(r)
  \/ CartPopulate(r)

\* accounts, carts and checkout, one request at a time, while the
\* administrator takes a service out of the catalog
Next ==
  \/ SeedDatabase
  \/ ServiceDelete(S1, AdminId, "s2")
  \/ \E u \in NewCustomers : Register(S1, u)
  \/ UpdateMembership(S1, AdminId, "amit", "platinum")
  \/ CartAddBegin(S1, "amit", "s1", 2)
  \/ CartAddStep(S1)
  \/ \E u \in Buyers, c \in CheckoutRequests :
       CheckoutBegin(S1, u, c[1], c[2], c[3])
  \/ CheckoutStep(S1)
  \/ StoreFails(S1)
  \/ Respond(S1)

Spec == Init /\ [][Next]_vars

\* two checkouts of one account, their steps interleaved; no store errors,
\* no cart
RaceItemLists == {<<Line("s1", 25)>>, <<Line("s2", 50)>>}

NextRace ==
  \/ SeedDatabase
  \/ \E r \in Slots, items \in RaceItemLists :
       CheckoutBegin(r, "amit", items, now + 1, TRUE)
  \/ \E r \in Slots :
       \/ CheckoutLookup(r)
       \/ CheckoutInsert(r)
       \/ CheckoutTrack(r)
       \/ CheckoutLoadUser(r)
       \/ CheckoutSaveUser(r)
       \/ CheckoutFindCart(r)
       \/ CheckoutPopulate(r)
       \/ Respond(r)

SpecRace == Init /\ [][NextRace]_vars

\* the cart routes, one request at a time, while the administrator reprices
\* a service; a second account adds to and clears a cart of its own
CartUsers == {"amit"}

NextCart ==
  \/ SeedDatabase
  \/ ServiceUpdate(S1, AdminId, "s1", 100, NoText)
  \/ \E u \in CartUsers : CartGetBegin(S1, u)
  \/ \E u \in CartUsers, s \in ServiceIds \cup {UnknownService}, q \in {0, 1, 30} :
       CartAddBegin(S1, u, s, q)
  \/ CartAddStep(S1)
  \/ \E u \in CartUsers, s \in ServiceIds, q \in {-1, 0, 5, 51} :
       CartUpdateBegin(S1, u, s, q)
  \/ \E u \in CartUsers, s \in ServiceIds : CartRemoveBegin(S1, u, s)
  \/ \E u \in CartUsers : CartClearBegin(S1, u)
  \/ CartAddBegin(S1, "priya", "s2", 1)
  \/ CartClearBegin(S1, "priya")
  \/ CartFind(S1)
  \/ CartUpdateItem(S1)
  \/ CartRemoveItem(S1)
  \/ CartClear(S1)
  \/ StoreFails(S1)
  \/ Respond(S1)

SpecCart == Init /\ [][NextCart]_vars


\* the order routes, one request at a time: one customer places orders, and
\* the first order is updated by the administrator, cancelled by its owner,
\* another customer or the administrator, and reviewed by its owner or
\* another customer; the store errors of checkout are those of Spec
OrderCustomers == {"amit", "priya"}

\* the ids the order requests name: no order, the first order
OrderTargets == {0, 1}

\* the status values of the update requests, one of them not of the
\* enumeration
StatusInputs == {"confirmed", "picked-up", "delivered", "cancelled", "lost"}

\* the bodies of the review requests: rating and review
ReviewInputs == {<<0, NoText>>, <<4, NoText>>, <<5, "Crisp shirts">>}

NextOrder ==
  \/ SeedDatabase
  \/ CheckoutBegin(S1, "amit", <<Line("s1", 25)>>, now + 1, TRUE)
  \/ CheckoutLookup(S1)
  \/ CheckoutInsert(S1)
  \/ CheckoutTrack(S1)
  \/ CheckoutLoadUser(S1)
  \/ CheckoutSaveUser(S1)
  \/ CheckoutFindCart(S1)
  \/ CheckoutPopulate(S1)
  \/ \E id \in OrderTargets, status \in StatusInputs :
       StatusBegin(S1, AdminId, id, status, NoText)
  \/ \E id \in OrderTargets : StatusBegin(S1, AdminId, id, "confirmed", "Call before pickup")
  \/ StatusFind(S1)
  \/ StatusTrack(S1)
  \/ StatusStamp(S1)
  \/ StatusPopulate(S1)
  \/ \E u \in OrderCustomers \cup {AdminId}, id \in OrderTargets : CancelBegin(S1, u, id)
  \/ CancelFind(S1)
  \/ CancelTrack(S1)
  \/ \E u \in OrderCustomers, id \in OrderTargets, body \in ReviewInputs :
       ReviewBegin(S1, u, id, body[1], body[2])
  \/ ReviewFind(S1)
  \/ ReviewSave(S1)
  \/ reqs[S1].op # "checkout" /\ StoreFails(S1)
  \/ Respond(S1)

SpecOrder == Init /\ [][NextOrder]_vars

\* the order routes on one order of one customer, the steps of two requests
\* interleaved; no store errors
NextOrderRace ==
  \/ SeedDatabase
  \/ /\ orders = <<>>
     /\ CheckoutBegin(S1, "amit", <<Line("s1", 25)>>, now + 1, TRUE)
  \/ CheckoutLookup(S1)
  \/ CheckoutInsert(S1)
  \/ CheckoutTrack(S1)
  \/ CheckoutLoadUser(S1)
  \/ CheckoutSaveUser(S1)
  \/ CheckoutFindCart(S1)
  \/ CheckoutPopulate(S1)
  \/ \E r \in Slots :
       \/ \E status \in {"pending", "picked-up", "delivered"} :
            StatusBegin(r, AdminId, 1, status, NoText)
       \/ StatusFind(r)
       \/ StatusTrack(r)
       \/ StatusStamp(r)
       \/ StatusPopulate(r)
       \/ CancelBegin(r, "amit", 1)
       \/ CancelFind(r)
       \/ CancelTrack(r)
       \/ \E body \in ReviewInputs \ {<<0, NoText>>} :
            ReviewBegin(r, "amit", 1, body[1], body[2])
       \/ ReviewFind(r)
       \/ ReviewSave(r)
       \/ Respond(r)

SpecOrderRace == Init /\ [][NextOrderRace]_vars

\* GET /api/cart by three accounts in two requests whose steps interleave:
\* the lookup and the creation of getOrCreateCart are two store operations;
\* no store errors
CartRaceUsers == {"amit", "priya", "rajesh"}

NextCartRace ==
  \/ SeedDatabase
  \/ \E r \in Slots, u \in CartRaceUsers : CartGetBegin(r, u)
  \/ \E r \in Slots :
       \/ GetOrCreateCartFind(r)
       \/ GetOrCreateCartSave(r)
       \/ CartPopulate(r)
       \/ Respond(r)

SpecCartRace == Init /\ [][NextCartRace]_vars

\* the queries of GET /api/services: every combination of a category, a
\* price floor, a price ceiling, the popular flag and a search term
ListCategories == {NoText, "shirts", "home-essentials"}

ListPrices == {NoPrice, 100}

ListSearches == {NoText, "shirt", "blanket"}

\* the catalog and one order of two services, one request at a time: the
\* administrator renames and reprices a service and takes services out of
\* the catalog, and the public reads and the order read run in between
NextCatalog ==
  \/ SeedDatabase
  \/ /\ orders = <<>>
     /\ CheckoutBegin(S1, "amit", <<Line("s1", 2), Line("s2", 1)>>, now + 1, TRUE)
  \/ CheckoutLookup(S1)
  \/ CheckoutInsert(S1)
  \/ CheckoutTrack(S1)
  \/ CheckoutLoadUser(S1)
  \/ CheckoutSaveUser(S1)
  \/ CheckoutFindCart(S1)
  \/ CheckoutPopulate(S1)
  \/ ServiceUpdate(S1, AdminId, "s1", 100, "Formal Shirt")
  \/ \E s \in ServiceIds : ServiceDelete(S1, AdminId, s)
  \/ \E category \in ListCategories, minPrice \in ListPrices, maxPrice \in ListPrices,
        popular \in BOOLEAN, search \in ListSearches :
       ServiceListBegin(S1, category, minPrice, maxPrice, popular, search)
  \/ ServiceListFind(S1)
  \/ ServiceListCount(S1)
  \/ ServiceCategories(S1)
  \/ \E s \in ServiceIds : ServiceGet(S1, s)
  \/ \E u \in {"amit", "priya"} : OrderGet(S1, u, 1)
  \/ StoreFails(S1)
  \/ Respond(S1)

SpecCatalog == Init /\ [][NextCatalog]_vars

\* one order of two services through its life, one request at a time, while
\* the administrator renames and reprices a service and takes services out
\* of the catalog
NextFrozen ==
  \/ SeedDatabase
  \/ /\ orders = <<>>
     /\ CheckoutBegin(S1, "amit", <<Line("s1", 2), Line("s2", 1)>>, now + 1, TRUE)
  \/ CheckoutLookup(S1)
  \/ CheckoutInsert(S1)
  \/ CheckoutTrack(S1)
  \/ CheckoutLoadUser(S1)
  \/ CheckoutSaveUser(S1)
  \/ CheckoutFindCart(S1)
  \/ CheckoutPopulate(S1)
  \/ ServiceUpdate(S1, AdminId, "s1", 100, "Formal Shirt")
  \/ \E s \in ServiceIds : ServiceDelete(S1, AdminId, s)
  \/ OrderGet(S1, "amit", 1)
  \/ \E status \in {"confirmed", "delivered"} : StatusBegin(S1, AdminId, 1, status, NoText)
  \/ StatusFind(S1)
  \/ StatusTrack(S1)
  \/ StatusStamp(S1)
  \/ StatusPopulate(S1)
  \/ CancelBegin(S1, "amit", 1)
  \/ CancelFind(S1)
  \/ CancelTrack(S1)
  \/ ReviewBegin(S1, "amit", 1, 5, "Crisp shirts")
  \/ ReviewFind(S1)
  \/ ReviewSave(S1)
  \/ StoreFails(S1)
  \/ Respond(S1)

SpecFrozen == Init /\ [][NextFrozen]_vars

\* one order and every status update on it, one request at a time: the
\* administrator sets each of the eight statuses from each of them, the
\* customers try the same route, and the owner and another customer cancel
NextStatus ==
  \/ SeedDatabase
  \/ /\ orders = <<>>
     /\ CheckoutBegin(S1, "amit", <<Line("s1", 25)>>, now + 1, TRUE)
  \/ CheckoutLookup(S1)
  \/ CheckoutInsert(S1)
  \/ CheckoutTrack(S1)
  \/ CheckoutLoadUser(S1)
  \/ CheckoutSaveUser(S1)
  \/ CheckoutFindCart(S1)
  \/ CheckoutPopulate(S1)
  \/ \E status \in OrderStatuses \cup {"lost"} : StatusBegin(S1, AdminId, 1, status, NoText)
  \/ \E u \in OrderCustomers, status \in {"delivered", "cancelled"} :
       StatusForbidden(S1, u, 1, status)
  \/ StatusFind(S1)
  \/ StatusTrack(S1)
  \/ StatusStamp(S1)
  \/ StatusPopulate(S1)
  \/ \E u \in OrderCustomers : CancelBegin(S1, u, 1)
  \/ CancelFind(S1)
  \/ CancelTrack(S1)
  \/ StoreFails(S1)
  \/ Respond(S1)

SpecStatus == Init /\ [][NextStatus]_vars

\* the ids of the two orders of the ownership specification
OwnerTargets == {1, 2}

\* an order of amit, delivered by the administrator, and an order of priya,
\* left pending, one request at a time: each customer and the administrator
\* read, list, cancel and review both orders
NextOwner ==
  \/ SeedDatabase
  \/ /\ Len(orders) = 0
     /\ CheckoutBegin(S1, "amit", <<Line("s1", 25)>>, now + 1, TRUE)
  \/ /\ Len(orders) = 1
     /\ CheckoutBegin(S1, "priya", <<Line("s2", 50)>>, now + 1, TRUE)
  \/ CheckoutLookup(S1)
  \/ CheckoutInsert(S1)
  \/ CheckoutTrack(S1)
  \/ CheckoutLoadUser(S1)
  \/ CheckoutSaveUser(S1)
  \/ CheckoutFindCart(S1)
  \/ CheckoutPopulate(S1)
  \/ StatusBegin(S1, AdminId, 1, "delivered", NoText)
  \/ StatusFind(S1)
  \/ StatusTrack(S1)
  \/ StatusStamp(S1)
  \/ StatusPopulate(S1)
  \/ \E u \in OrderCustomers \cup {AdminId}, id \in OwnerTargets : OrderGet(S1, u, id)
  \/ \E u \in OrderCustomers \cup {AdminId}, status \in {NoText, "pending", "lost"} :
       OrderListBegin(S1, u, status)
  \/ OrderListFind(S1)
  \/ OrderListCount(S1)
  \/ \E u \in OrderCustomers, id \in OwnerTargets : CancelBegin(S1, u, id)
  \/ CancelFind(S1)
  \/ CancelTrack(S1)
  \/ \E u \in OrderCustomers, id \in OwnerTargets, rating \in {0, 5} :
       ReviewBegin(S1, u, id, rating, "Crisp shirts")
  \/ ReviewFind(S1)
  \/ ReviewSave(S1)
  \/ StoreFails(S1)
  \/ Respond(S1)

SpecOwner == Init /\ [][NextOwner]_vars

\* the item lists of the checkouts that run against a cart
PayloadItemLists ==
  {<<Line("s1", 25)>>, <<Line("s2", 1), Line("s1", 3)>>, <<Line("s1", 2), Line("s1", 2)>>}

\* a cart and a checkout of one account, one request at a time: the cart
\* takes lines of either service, the administrator reprices the first
\* service, and the checkout names other lines than the cart holds
NextPayload ==
  \/ SeedDatabase
  \/ \E s \in ServiceIds : CartAddBegin(S1, "amit", s, 2)
  \/ CartAddStep(S1)
  \/ ServiceUpdate(S1, AdminId, "s1", 100, NoText)
  \/ \E items \in PayloadItemLists :
       /\ orders = <<>>
       /\ CheckoutBegin(S1, "amit", items, now + 1, TRUE)
  \/ CheckoutStep(S1)
  \/ StoreFails(S1)
  \/ Respond(S1)

SpecPayload == Init /\ [][NextPayload]_vars

\* the accounts the tier method is applied to
TierUsers == {"amit", "priya"}

\* the amounts spent of those accounts: nothing, and each threshold with
\* the amounts next to it
SpentValues ==
  {0} \cup {t + d : t \in {SilverThreshold, GoldThreshold, PlatinumThreshold},
                    d \in {-1, 0, 1}}

\* the seeded store with any amount spent and any stored tier for the
\* accounts of TierUsers
InitTier ==
  /\ now = 0
  /\ services = SeedServices
  /\ users \in {[SeedUsers EXCEPT !["amit"].totalSpent = sa, !["amit"].membershipTier = ta,
                                  !["priya"].totalSpent = sp, !["priya"].membershipTier = tp] :
                  sa \in SpentValues, ta \in MembershipTiers,
                  sp \in SpentValues, tp \in MembershipTiers}
  /\ carts = [u \in UserIds |-> NoCart]
  /\ orders = <<>>
  /\ reqs = [r \in Slots |-> IdleReq]

\* user.updateMembershipTier(); await user.save() on the stored account
TierApply(r, u) ==
  /\ Idle(r)
  /\ users[u].exists
  /\ users' = [users EXCEPT ![u].membershipTier = updateMembershipTier(users[u].totalSpent)]
  /\ reqs' = [reqs EXCEPT ![r] = Answer(Arrive(r, "tier", u), 200, "")]
  /\ UNCHANGED <<now, services, carts, orders>>

NextTier ==
  \/ \E r \in Slots, u \in TierUsers : TierApply(r, u)
  \/ \E r \in Slots : Respond(r)

SpecTier == InitTier /\ [][NextTier]_vars

\* a checkout of two services in one request while the administrator takes
\* either service out of the catalog in another, their steps interleaved; no
\* store errors
NextDeleteRace ==
  \/ SeedDatabase
  \/ \E items \in {<<Line("s1", 2), Line("s2", 1)>>, <<Line("s2", 50)>>} :
       /\ orders = <<>>
       /\ CheckoutBegin(S1, "amit", items, now + 1, TRUE)
  \/ CheckoutLookup(S1)
  \/ CheckoutInsert(S1)
  \/ CheckoutTrack(S1)
  \/ CheckoutLoadUser(S1)
  \/ CheckoutSaveUser(S1)
  \/ CheckoutFindCart(S1)
  \/ CheckoutPopulate(S1)
  \/ \E r \in Slots \ {S1}, s \in ServiceIds : ServiceDelete(r, AdminId, s)
  \/ \E r \in Slots : Respond(r)

SpecDeleteRace == Init /\ [][NextDeleteRace]_vars

----------------------------------------------------------------------------
\* Properties.

\* the orders stored for an account
OrdersOf(u) == {id \in 1..Len(orders) : orders[id].customer = u}

\* the sum of the totals of the orders of an account
RECURSIVE TotalOfOrders(_)
TotalOfOrders(ids) ==
  IF ids = {} THEN 0
  ELSE LET id == CHOOSE x \in ids : TRUE
       IN orders[id].total + TotalOfOrders(ids \ {id})

\* C1: every persisted order has tax = round(subtotal * 0.18), the integer
\* nearest to 18% of the subtotal with halves rounded up, and
\* total = subtotal + tax.
C1_TaxAndTotal ==
  \A id \in 1..Len(orders) :
    LET o == orders[id]
    IN /\ 100 * o.tax <= 18 * o.subtotal + 50
       /\ 100 * o.tax > 18 * o.subtotal - 50
       /\ o.total = o.subtotal + o.tax

\* C1 witness: a checkout has answered 201 for an order whose 18% falls on a
\* half (25 x 49 = 1225, 220.5 rounds to 221).
C1_Witness ==
  /\ reqs[S1].op = "checkout" /\ reqs[S1].code = 201
  /\ orders[reqs[S1].order].subtotal = 1225
  /\ orders[reqs[S1].order].tax = 221
  /\ orders[reqs[S1].order].total = 1446

\* C2: a checkout that answers with an error (400 or 500) has persisted no
\* order and left the caller's account and cart as they were.
C2_ErrorHasNoSideEffects ==
  \A r \in Slots :
    (reqs[r].op = "checkout" /\ reqs[r].pc = "respond" /\ reqs[r].code \in {400, 500})
      => /\ Len(orders) = reqs[r].preOrders
         /\ users[reqs[r].user] = reqs[r].preUser
         /\ carts[reqs[r].user] = reqs[r].preCart

\* C3: once no checkout is in flight, the account's totalOrders has grown by
\* the number of its orders and its totalSpent by the sum of their totals.
C3_CountersMatchOrders ==
  (\A r \in Slots : reqs[r].pc \in {"idle", "respond"})
    => \A u \in UserIds :
         users[u].exists =>
           /\ users[u].totalOrders = SeedUsers[u].totalOrders + Cardinality(OrdersOf(u))
           /\ users[u].totalSpent = SeedUsers[u].totalSpent + TotalOfOrders(OrdersOf(u))

\* C4: every account's membershipTier is the tier its totalSpent implies.
C4_TierMatchesSpent ==
  \A u \in UserIds :
    users[u].exists =>
      users[u].membershipTier =
        (IF users[u].totalSpent < 10000 THEN "bronze"
         ELSE IF users[u].totalSpent < 25000 THEN "silver"
         ELSE IF users[u].totalSpent < 50000 THEN "gold"
         ELSE "platinum")

\* the sums of a cart's lines, computed by index
QuantityOfLines(items) ==
  LET f[k \in 0..Len(items)] == IF k = 0 THEN 0 ELSE f[k - 1] + items[k].quantity
  IN f[Len(items)]

PriceOfLines(items) ==
  LET f[k \in 0..Len(items)] ==
        IF k = 0 THEN 0 ELSE f[k - 1] + items[k].price * items[k].quantity
  IN f[Len(items)]

\* C5: in every persisted cart totalItems is the sum of the line quantities
\* and totalPrice the sum of price * quantity over the lines.
C5_CartTotals ==
  \A u \in UserIds :
    carts[u].exists =>
      /\ carts[u].totalItems = QuantityOfLines(carts[u].items)
      /\ carts[u].totalPrice = PriceOfLines(carts[u].items)

\* C5 witness: an update of a quantity has been saved in a cart of two lines
\* with different price snapshots.
C5_Witness ==
  /\ reqs[S1].op = "updateItem" /\ reqs[S1].code = 200 /\ reqs[S1].quantity = 5
  /\ Len(carts["amit"].items) = 2
  /\ carts["amit"].items[1].price # carts["amit"].items[2].price
  /\ carts["amit"].items # reqs[S1].preCart.items
  /\ carts["amit"].totalItems > 5

\* C2 counterexample witness: a checkout has answered 500 although its order
\* is stored.
C2_OrderKeptAfterError ==
  /\ reqs[S1].op = "checkout" /\ reqs[S1].pc = "respond" /\ reqs[S1].code = 500
  /\ Len(orders) = reqs[S1].preOrders + 1

\* C6: a step of a cancel request on an order whose status is neither
\* pending nor confirmed leaves the orders unchanged, and the lookup of such
\* a request answers 400 unless the store fails; an order becomes cancelled
\* through the cancel route only from pending or confirmed.  Administrators
\* are callers like the others.
C6_CancelOnlyEarly ==
  [][\A r \in Slots :
       (reqs[r].op = "cancel" /\ reqs[r].target \in 1..Len(orders)
          /\ (reqs[r].user = AdminId
                \/ orders[reqs[r].target].customer = reqs[r].user))
         => IF orders[reqs[r].target].status \in {"pending", "confirmed"}
            THEN orders' # orders =>
                   orders'[reqs[r].target].status = "cancelled"
            ELSE /\ orders' = orders
                 /\ (reqs[r].pc = "find" /\ reqs'[r].pc # "find")
                      => \/ reqs'[r].code = 400
                         \/ reqs'[r].err = "store"]_vars

\* C6 witness: the administrator's cancel of a picked-up order has been
\* answered 400, the order still picked-up.
C6_Witness ==
  /\ reqs[S1].op = "cancel" /\ reqs[S1].user = AdminId
  /\ reqs[S1].pc = "respond" /\ reqs[S1].code = 400
  /\ Len(orders) >= 1 /\ reqs[S1].target = 1
  /\ orders[1].status = "picked-up"
  /\ Len(orders[1].trackingUpdates) = 2

\* C7: the lookup of a review request answers 404 unless the order is the
\* caller's and delivered, 400 if that order has a rating, and goes on to
\* the save otherwise; the two rejections leave the orders unchanged, and
\* rating and review of an order change only in the save of a review of the
\* owner's delivered, unrated order.
C7_ReviewEligibility ==
  [][/\ \A r \in Slots :
          (reqs[r].op = "review" /\ reqs[r].pc = "find"
             /\ reqs'[r].pc # "find" /\ reqs'[r].err # "store")
            => LET id == reqs[r].target
               IN IF ~(id \in 1..Len(orders)
                        /\ orders[id].customer = reqs[r].user
                        /\ orders[id].status = "delivered")
                  THEN reqs'[r].code = 404 /\ orders' = orders
                  ELSE IF orders[id].rating # NoRating
                  THEN reqs'[r].code = 400 /\ orders' = orders
                  ELSE reqs'[r].pc = "save" /\ orders' = orders
     /\ \A id \in 1..Len(orders) :
          (orders'[id].rating # orders[id].rating
             \/ orders'[id].review # orders[id].review)
            => /\ orders[id].status = "delivered"
               /\ orders[id].rating = NoRating
               /\ \E r \in Slots :
                    /\ reqs[r].op = "review" /\ reqs[r].pc = "save"
                    /\ reqs[r].target = id
                    /\ reqs[r].user = orders[id].customer
                    /\ orders'[id].rating = reqs[r].rating]_vars

\* C7 witness: a second review of a rated order has been answered 400, the
\* first rating and review still stored.
C7_Witness ==
  /\ reqs[S1].op = "review" /\ reqs[S1].pc = "respond"
  /\ reqs[S1].code = 400 /\ reqs[S1].err = "reviewed"
  /\ reqs[S1].rating = 4 /\ reqs[S1].target = 1
  /\ Len(orders) >= 1
  /\ orders[1].rating = 5 /\ orders[1].review = "Crisp shirts"

\* C8: once an order has a rating, its rating and review keep their values.
C8_RatingNeverOverwritten ==
  [][\A id \in 1..Len(orders) :
       orders[id].rating # NoRating
         => /\ orders'[id].rating = orders[id].rating
            /\ orders'[id].review = orders[id].review]_vars

\* C9 as stated: an order that is delivered or cancelled keeps its status.
C9_TerminalNeverLeft ==
  [][\A id \in 1..Len(orders) :
       orders[id].status \in {"delivered", "cancelled"}
         => orders'[id].status = orders[id].status]_vars

\* C9: the status of a delivered or cancelled order changes only in the
\* tracking step of an administrator's status update of that order, to the
\* status of that request; cancel and review never change it.
C9_TerminalLeftOnlyByStatusUpdate ==
  [][\A id \in 1..Len(orders) :
       (orders[id].status \in {"delivered", "cancelled"}
          /\ orders'[id].status # orders[id].status)
         => \E r \in Slots :
              /\ reqs[r].op = "status" /\ reqs[r].pc = "track"
              /\ reqs[r].user = AdminId
              /\ reqs[r].target = id
              /\ orders'[id].status = reqs[r].status]_vars

\* C9 witness: a status update has been answered 200 that moved a delivered
\* order back to confirmed.
C9_Witness ==
  /\ reqs[S1].op = "status" /\ reqs[S1].pc = "respond" /\ reqs[S1].code = 200
  /\ reqs[S1].status = "confirmed" /\ reqs[S1].lstatus = "delivered"
  /\ reqs[S1].target = 1
  /\ orders[1].status = "confirmed"
  /\ orders[1].actualDelivery # NoDate

\* C10: no order is removed; a step leaves the tracking history of an order
\* as it is or appends one entry of status, message and timestamp that
\* carries the order's status after the step; a step that changes the status
\* appends; an order is inserted pending with an empty history, and a
\* checkout answered 201 has left one entry, of status pending.
C10_TrackingAppendOnly ==
  /\ [][/\ Len(orders') >= Len(orders)
        /\ \A id \in 1..Len(orders) :
             LET old == orders[id].trackingUpdates
                 new == orders'[id].trackingUpdates
             IN \/ new = old /\ orders'[id].status = orders[id].status
                \/ /\ Len(new) = Len(old) + 1
                   /\ SubSeq(new, 1, Len(old)) = old
                   /\ DOMAIN new[Len(new)] = {"status", "message", "timestamp"}
                   /\ new[Len(new)].status = orders'[id].status
        /\ \A id \in (Len(orders) + 1)..Len(orders') :
             /\ orders'[id].trackingUpdates = <<>>
             /\ orders'[id].status = "pending"]_vars
  /\ [](\A r \in Slots :
          (reqs[r].op = "checkout" /\ reqs[r].pc = "respond" /\ reqs[r].code = 201)
            => /\ Len(orders[reqs[r].order].trackingUpdates) = 1
               /\ orders[reqs[r].order].trackingUpdates[1].status = "pending")

\* C10 witness: a cancel has been answered 200 on an order whose history is
\* pending, confirmed, cancelled.
C10_Witness ==
  /\ reqs[S1].op = "cancel" /\ reqs[S1].pc = "respond" /\ reqs[S1].code = 200
  /\ reqs[S1].target = 1
  /\ Len(orders[1].trackingUpdates) = 3
  /\ orders[1].trackingUpdates[1].status = "pending"
  /\ orders[1].trackingUpdates[2].status = "confirmed"
  /\ orders[1].trackingUpdates[3].status = "cancelled"
  /\ orders[1].trackingUpdates[3].message = CancelMessage
  /\ orders[1].status = "cancelled"

\* C11: a request that went through getOrCreateCart ends successfully, with
\* the caller's cart stored.
C11_GetOrCreateSucceeds ==
  \A r \in Slots :
    (reqs[r].op = "getCart" /\ reqs[r].pc = "respond")
      => reqs[r].code = 200 /\ carts[reqs[r].user].exists

\* C11 failing state: of two requests of one account that both found no
\* cart, one has answered 200 and the other 500 on the unique index.
C11_DuplicateRejected ==
  /\ reqs["r1"].user = reqs["r2"].user
  /\ reqs["r1"].pc = "respond" /\ reqs["r1"].code = 200
  /\ reqs["r2"].pc = "respond" /\ reqs["r2"].code = 500
  /\ reqs["r2"].err = "duplicate"
  /\ carts[reqs["r1"].user].exists

C13_OneLinePerService ==
  \A u \in UserIds :
    \A j, k \in 1..Len(carts[u].items) :
      carts[u].items[j].service = carts[u].items[k].service => j = k

\* C13 failing state: one unit of a service was added twice; the second
\* request is answered 200 and the cart holds two lines of one unit
\* instead of one line of two.
C13_SecondLine ==
  /\ reqs[S1].op = "addItem" /\ reqs[S1].pc = "respond" /\ reqs[S1].code = 200
  /\ reqs[S1].quantity = 1
  /\ Len(carts["amit"].items) = 2
  /\ carts["amit"].items[1].service = reqs[S1].service
  /\ carts["amit"].items[2].service = reqs[S1].service
  /\ carts["amit"].items[1].quantity = 1
  /\ carts["amit"].items[2].quantity = 1

\* C14: the method, on every stored cart: for a service the cart has a line
\* of, updateItemQuantity with a quantity of 0 or less yields the other
\* services' lines, unchanged and in order, and with a quantity from 1 to 50
\* yields the same lines with the quantity of the first line of that
\* service replaced.  The route, one request at a time: an update that has
\* saved stored what the method yields for the cart as it was, no line of
\* quantity 0 among it; an update ends in 200, in 400 for a quantity outside
\* 0..50, in 404 without a cart, or in 500 on a store error.
C14_UpdateItemQuantity ==
  /\ \A u \in UserIds, s \in ServiceIds, q \in {-1, 0, 1, 7, 50} :
       LET items == carts[u].items
           hit == {k \in 1..Len(items) : items[k].service = s}
           first == CHOOSE k \in hit : \A j \in hit : k <= j
           result == UpdateItemQuantityItems(items, s, q, FALSE)
       IN IF hit = {} THEN result = items
          ELSE IF q <= 0
          THEN result = SelectSeq(items, LAMBDA it : it.service # s)
          ELSE /\ Len(result) = Len(items)
               /\ \A k \in 1..Len(items) :
                    result[k] = IF k = first THEN [items[k] EXCEPT !.quantity = q]
                                ELSE items[k]
  /\ \A r \in Slots :
       reqs[r].op = "updateItem" =>
         LET items == carts[reqs[r].user].items
             before == reqs[r].preCart.items
             s == reqs[r].service
             q == reqs[r].quantity
             hit == {k \in 1..Len(before) : before[k].service = s}
             first == CHOOSE k \in hit : \A j \in hit : k <= j
         IN /\ (reqs[r].pc = "populate" \/ (reqs[r].pc = "respond" /\ reqs[r].code = 200))
                 => /\ \A k \in 1..Len(items) : items[k].quantity # 0
                    /\ IF hit = {} THEN items = before
                       ELSE IF q <= 0
                       THEN items = SelectSeq(before, LAMBDA it : it.service # s)
                       ELSE /\ Len(items) = Len(before)
                            /\ \A k \in 1..Len(before) :
                                 items[k] = IF k = first
                                            THEN [before[k] EXCEPT !.quantity = q]
                                            ELSE before[k]
            /\ reqs[r].pc = "respond"
                 => \/ reqs[r].code = 200
                    \/ reqs[r].code = 400 /\ (q < 0 \/ q > 50) /\ items = before
                    \/ reqs[r].code = 404 /\ ~reqs[r].preCart.exists
                    \/ reqs[r].code = 500 /\ reqs[r].err = "store"

\* C14 witness: an update to quantity 0 has been answered 200 on a cart of
\* two services; the line of the one is gone, the line of the other is as
\* it was.
C14_Witness ==
  /\ reqs[S1].op = "updateItem" /\ reqs[S1].pc = "respond" /\ reqs[S1].code = 200
  /\ reqs[S1].quantity = 0
  /\ Len(reqs[S1].preCart.items) = 2
  /\ reqs[S1].preCart.items[1].service = reqs[S1].service
  /\ reqs[S1].preCart.items[2].service # reqs[S1].service
  /\ carts["amit"].items = <<reqs[S1].preCart.items[2]>>

\* C15: a checkout whose pickup date is not later than the time of the
\* request is answered 400 as it arrives: no order is stored, and the
\* caller's account and cart are as they were.
C15_PastPickupRejected ==
  \A r \in Slots :
    (reqs[r].op = "checkout" /\ reqs[r].pickupDate <= now)
      => /\ reqs[r].pc = "respond" /\ reqs[r].code = 400
         /\ Len(orders) = reqs[r].preOrders
         /\ users[reqs[r].user] = reqs[r].preUser
         /\ carts[reqs[r].user] = reqs[r].preCart

\* C15 witness: a checkout with valid items and a pickup date equal to the
\* time of the request has been answered 400 for its pickup date, the
\* caller having a cart with a line in it.
C15_Witness ==
  /\ reqs[S1].op = "checkout" /\ reqs[S1].pc = "respond"
  /\ reqs[S1].code = 400 /\ reqs[S1].err = "pickup"
  /\ reqs[S1].pickupDate = now
  /\ reqs[S1].items = <<Line("s1", 25)>>
  /\ Len(carts[reqs[S1].user].items) >= 1

\* C16: a checkout that lists, at any position, a service that is not in
\* the catalog or not active stores no order and leaves the caller's
\* account as it was, and ends in 400 (in 500 if a lookup fails in the
\* store).
C16_InactiveServiceRejected ==
  \A r \in Slots :
    (/\ reqs[r].op = "checkout"
     /\ \E k \in 1..Len(reqs[r].items) :
          LET s == reqs[r].items[k].service
          IN ~(s \in ServiceIds /\ services[s].exists /\ services[s].isActive))
      => /\ Len(orders) = reqs[r].preOrders
         /\ users[reqs[r].user] = reqs[r].preUser
         /\ reqs[r].pc = "respond"
              => \/ reqs[r].code = 400
                 \/ reqs[r].code = 500 /\ reqs[r].err = "store"

\* C16 witness: a checkout of an active service followed by one taken out
\* of the catalog has been answered 400 at the second line.
C16_Witness ==
  /\ reqs[S1].op = "checkout" /\ reqs[S1].pc = "respond"
  /\ reqs[S1].code = 400 /\ reqs[S1].err = "service"
  /\ reqs[S1].items = <<Line("s1", 2), Line("s2", 1)>>
  /\ reqs[S1].i = 2 /\ Len(reqs[S1].orderItems) = 1
  /\ services["s2"].exists /\ ~services["s2"].isActive
  /\ Len(orders) = reqs[S1].preOrders

\* C17: when a checkout has answered 201, the caller's cart, if there was
\* one when the request arrived, is stored with no items and totals of 0;
\* if there was none, there is none.
C17_CartClearedAfterCheckout ==
  \A r \in Slots :
    (reqs[r].op = "checkout" /\ reqs[r].pc = "respond" /\ reqs[r].code = 201)
      => IF reqs[r].preCart.exists
         THEN /\ carts[reqs[r].user].exists
              /\ carts[reqs[r].user].items = <<>>
              /\ carts[reqs[r].user].totalItems = 0
              /\ carts[reqs[r].user].totalPrice = 0
         ELSE ~carts[reqs[r].user].exists /\ carts[reqs[r].user] = NoCart

\* C17 witness: a checkout has answered 201 for a caller whose cart held a
\* line when the request arrived.
C17_Witness ==
  /\ reqs[S1].op = "checkout" /\ reqs[S1].pc = "respond" /\ reqs[S1].code = 201
  /\ reqs[S1].preCart.exists
  /\ Len(reqs[S1].preCart.items) >= 1 /\ reqs[S1].preCart.totalPrice > 0
  /\ carts[reqs[S1].user].items = <<>>

\* C18: an order's items (service, serviceName, quantity, price, subtotal)
\* and its subtotal, tax and total are written once, by the insert of the
\* checkout: no step of a catalog update, a soft delete, a status update, a
\* cancel, a review or a read changes them, and no step removes the order.
C18_OrderFrozen ==
  [][\A id \in 1..Len(orders) :
       /\ id <= Len(orders')
       /\ orders'[id].items = orders[id].items
       /\ orders'[id].subtotal = orders[id].subtotal
       /\ orders'[id].tax = orders[id].tax
       /\ orders'[id].total = orders[id].total]_vars

\* a delivered and reviewed order still carries the name and the price its
\* first service had at checkout, after the catalog renamed and repriced that
\* service and dropped the second one
C18_Witness ==
  /\ Len(orders) = 1
  /\ orders[1].status = "delivered" /\ orders[1].rating = 5
  /\ orders[1].items[1].serviceName = "Regular Shirt"
  /\ orders[1].items[1].price = 49
  /\ orders[1].total = ComputeTax(orders[1].subtotal) + orders[1].subtotal
  /\ services["s1"].name = "Formal Shirt" /\ services["s1"].price = 100
  /\ ~services["s2"].isActive

\* what the reads in flight answer with, against the catalog as it is
C19_Responses ==
  \A r \in Slots :
    LET q == reqs[r]
        active == {s \in ServiceIds : services[s].exists /\ services[s].isActive}
    IN /\ q.op = "listServices" =>
            /\ q.listed \subseteq active
            /\ q.count <= Cardinality(active)
            /\ (q.pc = "respond" /\ q.code = 200) => q.count = Cardinality(q.listed)
       /\ q.op = "categories" =>
            \A c \in DOMAIN q.categories :
              /\ q.categories[c] >= 1
              /\ q.categories[c] =
                   Cardinality({s \in active : services[s].category = c})
       /\ q.op = "getService" =>
            /\ q.code = 200 <=> q.service \in active
            /\ q.code # 200 => q.code = 404 /\ q.listed = {}
       /\ (q.op = "getOrder" /\ q.code = 200) =>
            \A k \in 1..Len(orders[q.order].items) :
              /\ q.resolved[k] # NoText
              /\ q.resolved[k] = services[orders[q.order].items[k].service].name

C20_DeliveredHasStamp ==
  \A id \in 1..Len(orders) :
    orders[id].status = "delivered" => orders[id].actualDelivery # NoDate

\* the status update to delivered was answered with 500 after its first
\* save: the order stays delivered with no actualDelivery
C20_StampLost ==
  /\ reqs[S1].op = "status" /\ reqs[S1].status = "delivered"
  /\ reqs[S1].pc = "respond" /\ reqs[S1].code = 500
  /\ OrderExists(reqs[S1].order)
  /\ orders[reqs[S1].order].status = "delivered"
  /\ orders[reqs[S1].order].actualDelivery = NoDate

\* C21: an order is stored with status pending, a checkout answered 201 has
\* left it one tracking entry, pending, with the placing message, and an order
\* with an empty tracking history is the order of a checkout that has not
\* finished: its request is still before the tracking write.
C21_PlacedHistory ==
  /\ \A r \in Slots :
       (reqs[r].op = "checkout" /\ reqs[r].pc = "respond" /\ reqs[r].code = 201)
         => /\ Len(orders[reqs[r].order].trackingUpdates) = 1
            /\ orders[reqs[r].order].trackingUpdates[1].status = "pending"
            /\ orders[reqs[r].order].trackingUpdates[1].message = PlacedMessage
            /\ orders[reqs[r].order].status = "pending"
  /\ \A id \in 1..Len(orders) :
       orders[id].trackingUpdates = <<>>
         => /\ orders[id].status = "pending"
            /\ \E r \in Slots : /\ reqs[r].op = "checkout" /\ reqs[r].order = id
                                 /\ reqs[r].pc = "track"

\* the tracking write of a checkout failed: the request has answered 500 and
\* its order is stored, pending, with no tracking entry
C21_EmptyHistoryKept ==
  /\ reqs[S1].op = "checkout" /\ reqs[S1].pc = "respond" /\ reqs[S1].code = 500
  /\ OrderExists(reqs[S1].order)
  /\ orders[reqs[S1].order].trackingUpdates = <<>>
  /\ orders[reqs[S1].order].status = "pending"

\* C22: an administrator's status update with any of the eight statuses is
\* accepted whatever the order's status is: the lookup of an existing order
\* goes on to the write, the write leaves the order in the requested status,
\* and the request answers 200 unless the store fails.  A caller who is not
\* an administrator is answered 403 by that route, and a step changes an
\* order's status only for an administrator's status update or for a cancel
\* of an order that is pending or confirmed, which makes it cancelled.
C22_NoAdjacency ==
  /\ [][/\ \A r \in Slots :
             LET q == reqs[r]
                 n == reqs'[r]
             IN /\ (q.pc = "idle" /\ n.op = "status") =>
                     IF IsAdmin(n.user)
                     THEN n.status \in OrderStatuses => n.pc = "find"
                     ELSE n.pc = "respond" /\ n.code = 403
                /\ (q.op = "status" /\ q.pc = "find" /\ n # q /\ OrderExists(q.target)) =>
                     \/ n.pc = "track" /\ n.order = q.target
                     \/ n.code = 500 /\ n.err = "store"
                /\ (q.op = "status" /\ q.pc = "track" /\ n # q /\ n.code # 500) =>
                     orders'[q.order].status = q.status
        /\ \A id \in 1..Len(orders) :
             orders'[id].status # orders[id].status =>
               \E r \in Slots :
                 \/ /\ reqs[r].op = "status" /\ reqs[r].order = id
                    /\ IsAdmin(reqs[r].user)
                    /\ orders'[id].status = reqs[r].status
                 \/ /\ reqs[r].op = "cancel" /\ reqs[r].order = id
                    /\ orders[id].status \in {"pending", "confirmed"}
                    /\ orders'[id].status = "cancelled"]_vars
  /\ [](\A r \in Slots :
          (reqs[r].op = "status" /\ reqs[r].pc = "respond") =>
            /\ reqs[r].code \in {200, 400, 403, 404, 500}
            /\ reqs[r].code = 400 => reqs[r].status \notin OrderStatuses
            /\ reqs[r].code = 404 => ~OrderExists(reqs[r].target)
            /\ reqs[r].code = 500 => reqs[r].err = "store"
            /\ reqs[r].code = 200 => orders[reqs[r].target].status = reqs[r].status)

\* a delivered order has been set back to pending by the administrator
C22_Witness ==
  /\ reqs[S1].op = "status" /\ reqs[S1].pc = "respond" /\ reqs[S1].code = 200
  /\ reqs[S1].status = "pending"
  /\ Len(orders[1].trackingUpdates) = 3
  /\ orders[1].trackingUpdates[2].status = "delivered"
  /\ orders[1].trackingUpdates[3].status = "pending"
  /\ orders[1].status = "pending"

\* C23: a caller who is not an administrator reads, cancels and reviews its
\* own orders only.  A step changes an order only for a request of its
\* customer or of an administrator; a read, a cancel or a well-formed review
\* of another account's order answers 404 (500 if the store fails) and shows
\* nothing of the order; a listing holds the caller's orders only.
C23_OwnOrdersOnly ==
  /\ [][\A id \in 1..Len(orders) :
          orders'[id] # orders[id] =>
            \E r \in Slots :
              /\ reqs[r].order = id
              /\ IsAdmin(reqs[r].user) \/ reqs[r].user = orders[id].customer]_vars
  /\ [](\A r \in Slots :
          LET q == reqs[r]
          IN (q.pc = "respond" /\ q.user \in UserIds /\ ~IsAdmin(q.user)) =>
               /\ (/\ q.op \in {"getOrder", "cancel", "review"}
                   /\ OrderExists(q.target)
                   /\ orders[q.target].customer # q.user) =>
                    /\ \/ q.code = 404
                       \/ q.code = 500 /\ q.err = "store"
                       \/ q.op = "review" /\ q.code = 400 /\ q.err = "validation"
                    /\ q.resolved = <<>>
               /\ q.op = "listOrders" =>
                    /\ \A id \in q.listed : orders[id].customer = q.user
                    /\ q.count <= Cardinality({id \in 1..Len(orders) :
                                                 orders[id].customer = q.user}))

\* amit has asked to cancel priya's pending order and got 404, the order
\* being as it was
C23_Witness ==
  /\ reqs[S1].op = "cancel" /\ reqs[S1].user = "amit" /\ reqs[S1].target = 2
  /\ reqs[S1].pc = "respond" /\ reqs[S1].code = 404
  /\ Len(orders) = 2 /\ orders[2].customer = "priya"
  /\ orders[2].status = "pending"
  /\ Len(orders[2].trackingUpdates) = 1

\* C24: the order a checkout inserts has one line per item of the request, in
\* the request's order, each with the request's service and quantity and the
\* name and the price the catalog has for that service, whatever the caller's
\* cart holds.
C24_OrderFromPayload ==
  [][Len(orders') > Len(orders) =>
       /\ Len(orders') = Len(orders) + 1
       /\ \E r \in Slots :
            LET req == reqs[r]
                order == orders'[Len(orders')]
            IN /\ req.op = "checkout" /\ req.pc = "insert"
               /\ order.customer = req.user
               /\ Len(order.items) = Len(req.items)
               /\ \A k \in 1..Len(req.items) :
                    /\ order.items[k].service = req.items[k].service
                    /\ order.items[k].quantity = req.items[k].quantity
                    /\ order.items[k].price = services[req.items[k].service].price
                    /\ order.items[k].serviceName = services[req.items[k].service].name
                    /\ order.items[k].subtotal =
                         services[req.items[k].service].price * req.items[k].quantity]_vars

\* the order has just been inserted with two lines, the second of 3 shirts at
\* the new price, while the cart still holds 2 shirts at the old price
C24_Witness ==
  /\ reqs[S1].op = "checkout" /\ reqs[S1].pc = "track"
  /\ Len(orders) = 1
  /\ Len(orders[1].items) = 2
  /\ orders[1].items[1].service = "s2" /\ orders[1].items[1].quantity = 1
  /\ orders[1].items[2].service = "s1" /\ orders[1].items[2].quantity = 3
  /\ orders[1].items[2].price = 100
  /\ Len(carts["amit"].items) = 1
  /\ carts["amit"].items[1].service = "s1" /\ carts["amit"].items[1].quantity = 2
  /\ carts["amit"].items[1].price = 49

\* C25: updateMembershipTier leaves totalSpent alone and sets the tier from it
\* only: bronze below 10000, silver from 10000 and below 25000, gold from
\* 25000 and below 50000, platinum from 50000, whatever the stored tier was;
\* applied a second time to the same account it changes nothing.
C25_TierOfSpent ==
  /\ [](\A r \in Slots :
          (reqs[r].op = "tier" /\ reqs[r].pc = "respond") =>
            LET spent == users[reqs[r].user].totalSpent
                tier == users[reqs[r].user].membershipTier
            IN /\ spent = reqs[r].preUser.totalSpent
               /\ spent < 10000 => tier = "bronze"
               /\ (10000 <= spent /\ spent < 25000) => tier = "silver"
               /\ (25000 <= spent /\ spent < 50000) => tier = "gold"
               /\ spent >= 50000 => tier = "platinum")
  /\ [][\A r \in Slots :
          (/\ reqs[r].pc = "idle" /\ reqs'[r].op = "tier"
           /\ \E first \in Slots \ {r} : /\ reqs[first].op = "tier"
                                          /\ reqs[first].user = reqs'[r].user)
            => users' = users]_vars

\* an account stored as platinum with 9999 spent has been set to bronze
C25_Witness ==
  /\ reqs[S1].op = "tier" /\ reqs[S1].pc = "respond"
  /\ reqs[S1].preUser.membershipTier = "platinum"
  /\ reqs[S1].preUser.totalSpent = 9999
  /\ users[reqs[S1].user].membershipTier = "bronze"

\* the sum of the subtotals of the lines of an order
RECURSIVE SumSubtotals(_)
SumSubtotals(items) ==
  IF items = <<>> THEN 0 ELSE Head(items).subtotal + SumSubtotals(Tail(items))

\* C26: in every stored order each line's subtotal is its price times its
\* quantity, and the order's subtotal is the sum of its lines' subtotals, a
\* service listed twice counting twice.
C26_SubtotalIsSum ==
  \A id \in 1..Len(orders) :
    /\ Len(orders[id].items) >= 1
    /\ \A k \in 1..Len(orders[id].items) :
         orders[id].items[k].subtotal =
           orders[id].items[k].price * orders[id].items[k].quantity
    /\ orders[id].subtotal = SumSubtotals(orders[id].items)

\* an order of the same service on two lines: 2 x 49 twice, 196 in all
C26_Witness ==
  \E id \in 1..Len(orders) :
    /\ Len(orders[id].items) = 2
    /\ orders[id].items[1].service = orders[id].items[2].service
    /\ orders[id].items[1].subtotal = 98 /\ orders[id].items[2].subtotal = 98
    /\ orders[id].subtotal = 196

\* C27: in every state of the store, an order with a tracking history has the
\* status of the last entry of that history, however the steps of status
\* updates and cancels on it interleave.
C27_StatusIsLastEntry ==
  \A id \in 1..Len(orders) :
    orders[id].trackingUpdates # <<>> =>
      orders[id].status =
        orders[id].trackingUpdates[Len(orders[id].trackingUpdates)].status

\* a status update to pending and a cancel, both read while the order was
\* pending, have both answered 200: the order is cancelled and its last entry
\* is pending
C27_StaleUpdateAfterCancel ==
  \E r \in Slots, c \in Slots :
    /\ reqs[r].op = "status" /\ reqs[r].status = "pending"
    /\ reqs[r].pc = "respond" /\ reqs[r].code = 200
    /\ reqs[c].op = "cancel" /\ reqs[c].pc = "respond" /\ reqs[c].code = 200
    /\ orders[1].status = "cancelled"
    /\ Len(orders[1].trackingUpdates) = 3
    /\ orders[1].trackingUpdates[2].status = "cancelled"
    /\ orders[1].trackingUpdates[3].status = "pending"

\* C28: the write of a cancel request makes an order cancelled only if the
\* stored order is pending or confirmed when that write lands, also when a
\* status update was written after the cancel handler read the order.
C28_CancelSeesStoredStatus ==
  [][\A r \in Slots :
       (reqs[r].op = "cancel" /\ reqs[r].pc = "track" /\ reqs'[r].pc = "respond"
          /\ orders'[reqs[r].order].status = "cancelled")
         => orders[reqs[r].order].status \in {"pending", "confirmed"}]_vars

\* a cancel that read the order pending has answered 200 after the
\* administrator's picked-up was stored: the order went from picked-up to
\* cancelled
C28_PickedUpCancelled ==
  \E c \in Slots :
    /\ reqs[c].op = "cancel" /\ reqs[c].pc = "respond" /\ reqs[c].code = 200
    /\ reqs[c].lstatus = "pending"
    /\ orders[1].status = "cancelled"
    /\ Len(orders[1].trackingUpdates) = 3
    /\ orders[1].trackingUpdates[2].status = "picked-up"
    /\ orders[1].trackingUpdates[3].status = "cancelled"

\* C29: when an order is inserted, every service its lines refer to is
\* active in the catalog, also when a soft delete was written after the
\* checkout looked the service up.
C29_ActiveAtInsert ==
  [][Len(orders') > Len(orders) =>
       \A k \in 1..Len(orders'[Len(orders')].items) :
         FindActiveService(orders'[Len(orders')].items[k].service).exists]_vars

\* the checkout has answered 201 for an order with a line of the first
\* service, which was taken out of the catalog when no order was stored yet
C29_DeletedServiceOrdered ==
  /\ reqs[S1].op = "checkout" /\ reqs[S1].pc = "respond" /\ reqs[S1].code = 201
  /\ Len(orders) = 1 /\ orders[1].items[1].service = "s1"
  /\ ~services["s1"].isActive
  /\ \E r \in Slots \ {S1} :
       /\ reqs[r].op = "serviceDelete" /\ reqs[r].pc = "respond" /\ reqs[r].code = 200
       /\ reqs[r].preOrders = 0

\* C30: no step of a cancel request or of a status update changes an
\* account, and a step that makes an order cancelled leaves every account's
\* totalOrders, totalSpent and membershipTier as they were: a cancelled order
\* stays counted.
C30_CancelKeepsCounters ==
  [][/\ (\E r \in Slots : /\ reqs[r].op \in {"cancel", "status"}
                           /\ reqs'[r] # reqs[r]) => users' = users
     /\ (\E id \in 1..Len(orders) : /\ orders'[id].status = "cancelled"
                                     /\ orders[id].status # "cancelled")
          => \A u \in UserIds :
               /\ users'[u].totalOrders = users[u].totalOrders
               /\ users'[u].totalSpent = users[u].totalSpent
               /\ users'[u].membershipTier = users[u].membershipTier]_vars

\* amit's only order, of 1446, has been cancelled by amit and is still in
\* amit's counters: 3 + 1 orders, 2100 + 1446 spent
C30_Witness ==
  /\ reqs[S1].op = "cancel" /\ reqs[S1].pc = "respond" /\ reqs[S1].code = 200
  /\ reqs[S1].user = "amit"
  /\ Len(orders) = 1 /\ orders[1].status = "cancelled" /\ orders[1].total = 1446
  /\ users["amit"].totalOrders = 4
  /\ users["amit"].totalSpent = 3546
  /\ users["amit"].membershipTier = "bronze"

====
